---- MODULE Spec2Model ----
(***************************************************************************)
(* A model of SQLiteTool: the fluent QueryBuilder (src/src/QueryBuilder.ts) *)
(* the SQLiteTool facade (src/src/SQLiteTool.ts) over an embedded engine,   *)
(* and the migration layer of SQLiteAdmin (src/src/SQLiteAdmin.ts).         *)
(*                                                                         *)
(* SQL text is a sequence of tokens; the token "?" is a placeholder.       *)
(* Specifications sharing the module: SpecQB (the builder), Spec (the      *)
(* facade: connect, close, data operations, transaction), SpecAdmin        *)
(* (runMigrations / rollbackMigrations on a connected facade), SpecTB      *)
(* (the TableBuilder, src/src/TableBuilder.ts), SpecQuery (find, findOne,  *)
(* count, insert, update, delete and findPaginated on one table),          *)
(* SpecRecord (records whose values need preparation, written and read     *)
(* back) and SpecCallers (two callers whose connect() calls overlap).      *)
(***************************************************************************)
EXTENDS Integers, Sequences, FiniteSets, TLC

\* ------------------------------------------------------------------------
\* Bounds
\* ------------------------------------------------------------------------

\* number of builder calls made on one QueryBuilder
MaxCalls == 3

\* values a caller binds to placeholders
Values == {1, 2}

\* ------------------------------------------------------------------------
\* Sequence helpers
\* ------------------------------------------------------------------------

RECURSIVE Flatten(_)
\* concatenation of a sequence of sequences
Flatten(ss) ==
    IF ss = <<>> THEN <<>> ELSE Head(ss) \o Flatten(Tail(ss))

RECURSIVE JoinWith(_, _)
\* Array.prototype.join on token sequences: the parts separated by sep
JoinWith(parts, sep) ==
    IF parts = <<>> THEN <<>>
    ELSE IF Len(parts) = 1 THEN Head(parts)
    ELSE Head(parts) \o sep \o JoinWith(Tail(parts), sep)

\* values.map(() => '?'): one placeholder per value
Placeholders(vals) == [i \in 1..Len(vals) |-> <<"?">>]

\* number of placeholder markers of a token sequence
CountPlaceholders(toks) == Cardinality({i \in 1..Len(toks) : toks[i] = "?"})

\* the last element removed (Array.prototype.pop)
Front(s) == SubSeq(s, 1, Len(s) - 1)

\* ------------------------------------------------------------------------
\* QueryBuilder state
\* ------------------------------------------------------------------------

VARIABLES
    whereConditions,   \* _whereConditions: sequence of fragments (token sequences)
    whereValues,       \* _whereValues: the parameter list
    havingClause,      \* _havingClause: token sequence, <<>> when unset
    groupByClause,     \* _groupByClause
    orderByClause,     \* _orderByClause
    limitClause,       \* _limitClause
    offsetClause,      \* _offsetClause
    selectColumns,     \* _selectColumns: the projection, a sequence of column names
    distinctFlag,      \* _distinct
    joins,             \* _joins: sequence of JOIN clauses (token sequences)
    nCalls,            \* number of calls made so far on the builder and on the lists it returned
    held,              \* the values list the caller holds from the last toSQL()/toCountSQL() call
    suppliedWhere,     \* history: per WHERE fragment, the values supplied for its placeholders
    suppliedHaving     \* history: the values supplied with the HAVING clause now set

qbVars == <<whereConditions, whereValues, havingClause, groupByClause,
            orderByClause, limitClause, offsetClause, selectColumns, distinctFlag,
            joins, nCalls, held, suppliedWhere, suppliedHaving>>

VARIABLES
    db,            \* _db: the handle held, NoHandle for null
    isConnected,   \* _isConnected
    openHandles,   \* engine: the handles opened and not closed
    nextHandle,    \* engine: the next handle open() hands out
    inTx,          \* engine: a transaction is active on the connection
    disk,          \* engine: the committed database content
    conn,          \* engine: the content the connection sees (disk plus uncommitted writes)
    pc,            \* where the caller is inside the call in progress, "idle" between calls
    op,            \* the call in progress, or the last call made
    outcome,       \* how the last completed call ended
    cmds,          \* the engine commands the call in progress (or last call) issued, with their success
    pre,           \* history: facade and engine state when the call started
    caught,        \* transaction(): the error its catch block received
    cbOps,         \* facade calls made so far by the user callback
    cbStatus,      \* history: how the transaction callback ended ("none" while it has not)
    cbValue        \* history: the callback's result or error

\* a transaction() call the user callback makes on the same facade
VARIABLES
    nested,        \* transaction() calls the callback has made so far
    innerCmds,     \* the engine commands the inner call in progress (or last inner call) issued
    innerOutcome,  \* how the last inner call ended ("pending" while it runs)
    innerCaught    \* the error the inner call's catch block received

nestVars == <<nested, innerCmds, innerOutcome, innerCaught>>

facadeVars == <<db, isConnected, openHandles, nextHandle, inTx, disk, conn, pc, op,
                outcome, cmds, pre, caught, cbOps, cbStatus, cbValue, nestVars>>

\* the kinds of callback transaction() is given
\*   "user"     : a caller's callback making facade inserts
\*   "run"      : the callback of SQLiteAdmin.runMigrations
\*   "rollback" : the callback of SQLiteAdmin.rollbackMigrations
VARIABLES
    cbKind,        \* the callback the transaction in progress was given
    migrations,    \* admin: the caller's migration array (sorted in place by runMigrations)
    supplied,      \* history: the migration list as the caller supplied it
    rbCount,       \* admin: the count argument of rollbackMigrations
    results,       \* admin: the local results list
    todo,          \* admin: the migrations (run) or applied versions (rollback) still to visit
    appliedVersions, \* admin: the set of versions read before the loop
    upLog,         \* history: migrations whose up ran in this call, in order
    downLog,       \* history: versions whose down ran in this call, in order
    failed,        \* history: the version whose step failed in this call, 0 if none
    repeated       \* history: this runMigrations call repeats the previous, successful one with the same migrations

adminVars == <<cbKind, migrations, supplied, rbCount, results, todo, appliedVersions,
               upLog, downLog, failed, repeated>>

\* TableBuilder state; SQL text is a token sequence here as well
VARIABLES
    tbColumns,        \* _columns: sequence of [name, type, modifiers]
    tbConstraints,    \* _constraints: sequence of constraint texts (token sequences)
    tbCurrentColumn,  \* _currentColumn: the position in _columns of the object it refers to, 0 for null
    tbCalls,          \* number of calls made so far on the TableBuilder and on the lists it returned
    tbOutcome,        \* how the last TableBuilder call ended
    tbHeld,           \* the result the caller holds from the last build() call
    tbSince           \* history: "constraint" when a table-constraint call was made after the
                      \* last column call, "modified" when a modifier was applied after that, else "no"

tbVars == <<tbColumns, tbConstraints, tbCurrentColumn, tbCalls, tbOutcome, tbHeld, tbSince>>

\* the table the query operations of the facade work on, and the call in progress
VARIABLES
    tRows,         \* engine: the rows of table t in rowid order, each [id, v]
    qOp,           \* the query call in progress, or the last one made, with its arguments
    executed,      \* the statements the call has executed, each [sql, values]
    qOutcome,      \* how the last completed query call ended
    qPre,          \* history: the rows of t when the call started
    qPc,           \* "page" while findPaginated is between its count() and its find(), else "idle"
    total,         \* findPaginated: the local total while the call runs, 0 otherwise
    interleaved,   \* history: another caller wrote while the call was in progress
    inserted       \* history: during findOne, the record and lastID of the insert that
                   \* returned just before it; NoInsert otherwise

queryVars == <<tRows, qOp, executed, qOutcome, qPre, qPc, total, interleaved, inserted>>

\* callers whose connect() calls on one facade overlap
VARIABLES
    connPc,        \* per caller: "open" / "pragma" while its connect() awaits, else "idle"
    connOutcome,   \* per caller: how its last connect() call ended ("pending" while it runs)
    connCalls,     \* per caller: the number of connect() calls it has made
    overlapped     \* history: a connect() call started on the facade, no handle ever opened,
                   \* while another caller's connect() was awaiting open()

callerVars == <<connPc, connOutcome, connCalls, overlapped>>

vars == <<qbVars, facadeVars, adminVars, tbVars, queryVars, callerVars>>

\* the table the builder was constructed for
tableName == "t"

\* caller-supplied raw fragments with 0, 1 and 2 placeholders
RawFragments == { <<"a IS NULL">>, <<"a", "<", "?">>, <<"a", ">", "?", "OR", "b", "<", "?">> }

\* caller-supplied HAVING conditions with 0 and 1 placeholders
HavingConditions == { <<"COUNT(*) > 0">>, <<"COUNT(*)", ">", "?">> }

\* the value lists a caller passes: at most 2 long, of distinct values
ValueLists ==
    ({ <<>> } \cup { <<v>> : v \in Values } \cup { <<v, w>> : v, w \in Values })
    \ { <<v, v>> : v \in Values }

\* the value lists that carry exactly one value per placeholder of frag
MatchingValues(frag) == { vs \in ValueLists : Len(vs) = CountPlaceholders(frag) }

\* faulty variant: the internal parameter array itself is handed out
ReturnedList_Shared(list) == [ shared |-> TRUE, items |-> list ]

\* [...this._whereValues]: a new array holding the same elements; shared
\* tells whether the array is the builder's own parameter array
ReturnedList(list) == [ shared |-> FALSE, items |-> list ]

\* the caller holds no list yet
NoList == [ from |-> "none", list |-> [ shared |-> FALSE, items |-> <<>> ] ]

\* the projection a caller selects
Projections == { <<"id", "name">> }

QBInit ==
    /\ whereConditions = <<>>
    /\ whereValues = <<>>
    /\ havingClause = <<>>
    /\ groupByClause = <<>>
    /\ orderByClause = <<>>
    /\ limitClause = <<>>
    /\ offsetClause = <<>>
    /\ selectColumns = <<"*">>
    /\ distinctFlag = FALSE
    /\ joins = <<>>
    /\ nCalls = 0
    /\ held = NoList
    /\ suppliedWhere = <<>>
    /\ suppliedHaving = <<>>

\* a call that pushes one fragment and its values
PushWhere(frag, vals) ==
    /\ nCalls < MaxCalls
    /\ nCalls' = nCalls + 1
    /\ whereConditions' = Append(whereConditions, frag)
    /\ whereValues' = whereValues \o vals
    /\ suppliedWhere' = Append(suppliedWhere, vals)
    /\ UNCHANGED <<selectColumns, distinctFlag, joins, held>>
    /\ UNCHANGED <<havingClause, groupByClause, orderByClause, limitClause,
                   offsetClause, suppliedHaving, facadeVars, callerVars, adminVars, tbVars, queryVars>>

\* faulty variant: the fragment is pushed without its value
where_ValueDropped(column, operator, value) ==
    PushWhere(<<column, operator, "?">>, <<>>)

where(column, operator, value) ==
    PushWhere(<<column, operator, "?">>, <<value>>)

whereRaw(condition, values) ==
    PushWhere(condition, values)

\* faulty variant: an empty list is rendered as an empty IN list
whereIn_EmptyList(column, values) ==
    PushWhere(<<column, "IN", "(">> \o JoinWith(Placeholders(values), <<",">>) \o <<")">>,
              values)

whereIn(column, values) ==
    IF Len(values) = 0
    THEN PushWhere(<<"1 = 0">>, <<>>)
    ELSE PushWhere(<<column, "IN", "(">> \o JoinWith(Placeholders(values), <<",">>) \o <<")">>,
                   values)

whereNotIn(column, values) ==
    IF Len(values) = 0
    THEN /\ nCalls < MaxCalls
         /\ nCalls' = nCalls + 1
         /\ UNCHANGED <<whereConditions, whereValues, havingClause, groupByClause,
                        orderByClause, limitClause, offsetClause, selectColumns,
                        distinctFlag, joins, held, suppliedWhere, suppliedHaving,
                        facadeVars, callerVars, adminVars, tbVars, queryVars>>
    ELSE PushWhere(<<column, "NOT IN", "(">> \o JoinWith(Placeholders(values), <<",">>) \o <<")">>,
                   values)

whereNull(column) ==
    PushWhere(<<column, "IS NULL">>, <<>>)

whereNotNull(column) ==
    PushWhere(<<column, "IS NOT NULL">>, <<>>)

whereBetween(column, min, max) ==
    PushWhere(<<column, "BETWEEN", "?", "AND", "?">>, <<min, max>>)

whereLike(column, pattern) ==
    PushWhere(<<column, "LIKE", "?">>, <<pattern>>)

whereNotLike(column, pattern) ==
    PushWhere(<<column, "NOT LIKE", "?">>, <<pattern>>)

\* faulty variant: OR is appended as a fragment of its own
orWhere_Appended(column, operator, value) ==
    PushWhere(<<"OR", column, operator, "?">>, <<value>>)

orWhere(column, operator, value) ==
    /\ nCalls < MaxCalls
    /\ nCalls' = nCalls + 1
    /\ IF Len(whereConditions) > 0
       THEN /\ whereConditions' =
                 Append(Front(whereConditions),
                        whereConditions[Len(whereConditions)] \o <<"OR", column, operator, "?">>)
            /\ suppliedWhere' =
                 Append(Front(suppliedWhere),
                        suppliedWhere[Len(suppliedWhere)] \o <<value>>)
       ELSE /\ whereConditions' = Append(whereConditions, <<column, operator, "?">>)
            /\ suppliedWhere' = Append(suppliedWhere, <<value>>)
    /\ whereValues' = Append(whereValues, value)
    /\ UNCHANGED <<selectColumns, distinctFlag, joins, held>>
    /\ UNCHANGED <<havingClause, groupByClause, orderByClause, limitClause,
                   offsetClause, suppliedHaving, facadeVars, callerVars, adminVars, tbVars, queryVars>>

having(condition, values) ==
    /\ nCalls < MaxCalls
    /\ nCalls' = nCalls + 1
    /\ havingClause' = <<"HAVING">> \o condition
    /\ whereValues' = whereValues \o values
    /\ suppliedHaving' = values
    /\ UNCHANGED <<selectColumns, distinctFlag, joins, held>>
    /\ UNCHANGED <<whereConditions, groupByClause, orderByClause, limitClause,
                   offsetClause, suppliedWhere, facadeVars, callerVars, adminVars, tbVars, queryVars>>

groupBy(columns) ==
    /\ nCalls < MaxCalls
    /\ nCalls' = nCalls + 1
    /\ groupByClause' = <<"GROUP BY", columns>>
    /\ UNCHANGED <<selectColumns, distinctFlag, joins, held>>
    /\ UNCHANGED <<whereConditions, whereValues, havingClause, orderByClause,
                   limitClause, offsetClause, suppliedWhere, suppliedHaving,
                   facadeVars, callerVars, adminVars, tbVars, queryVars>>

orderBy(column, direction) ==
    /\ nCalls < MaxCalls
    /\ nCalls' = nCalls + 1
    /\ orderByClause' = <<"ORDER BY", column, direction>>
    /\ UNCHANGED <<selectColumns, distinctFlag, joins, held>>
    /\ UNCHANGED <<whereConditions, whereValues, havingClause, groupByClause,
                   limitClause, offsetClause, suppliedWhere, suppliedHaving,
                   facadeVars, callerVars, adminVars, tbVars, queryVars>>

limit(count) ==
    /\ nCalls < MaxCalls
    /\ nCalls' = nCalls + 1
    /\ limitClause' = <<"LIMIT", count>>
    /\ UNCHANGED <<selectColumns, distinctFlag, joins, held>>
    /\ UNCHANGED <<whereConditions, whereValues, havingClause, groupByClause,
                   orderByClause, offsetClause, suppliedWhere, suppliedHaving,
                   facadeVars, callerVars, adminVars, tbVars, queryVars>>

offset(count) ==
    /\ nCalls < MaxCalls
    /\ nCalls' = nCalls + 1
    /\ offsetClause' = <<"OFFSET", count>>
    /\ UNCHANGED <<selectColumns, distinctFlag, joins, held>>
    /\ UNCHANGED <<whereConditions, whereValues, havingClause, groupByClause,
                   orderByClause, limitClause, suppliedWhere, suppliedHaving,
                   facadeVars, callerVars, adminVars, tbVars, queryVars>>

select(columns) ==
    /\ nCalls < MaxCalls
    /\ nCalls' = nCalls + 1
    /\ selectColumns' = columns
    /\ UNCHANGED <<whereConditions, whereValues, havingClause, groupByClause,
                   orderByClause, limitClause, offsetClause, distinctFlag, joins, held,
                   suppliedWhere, suppliedHaving, facadeVars, callerVars, adminVars, tbVars, queryVars>>

distinct ==
    /\ nCalls < MaxCalls
    /\ nCalls' = nCalls + 1
    /\ distinctFlag' = TRUE
    /\ UNCHANGED <<whereConditions, whereValues, havingClause, groupByClause,
                   orderByClause, limitClause, offsetClause, selectColumns, joins, held,
                   suppliedWhere, suppliedHaving, facadeVars, callerVars, adminVars, tbVars, queryVars>>

join(table, first, operator, second, type) ==
    /\ nCalls < MaxCalls
    /\ nCalls' = nCalls + 1
    /\ joins' = Append(joins, <<type, "JOIN", table, "ON", first, operator, second>>)
    /\ UNCHANGED <<whereConditions, whereValues, havingClause, groupByClause,
                   orderByClause, limitClause, offsetClause, selectColumns, distinctFlag,
                   held, suppliedWhere, suppliedHaving, facadeVars, callerVars, adminVars, tbVars, queryVars>>

leftJoin(table, first, operator, second) ==
    join(table, first, operator, second, "LEFT")

rightJoin(table, first, operator, second) ==
    join(table, first, operator, second, "RIGHT")

\* the JOIN and WHERE text as the faulty variant of toCountSQL renders it
JoinsAndWhere ==
    (IF Len(joins) > 0 THEN JoinWith(joins, <<>>) ELSE <<>>)
    \o (IF Len(whereConditions) > 0
        THEN <<"WHERE">> \o JoinWith(whereConditions, <<"AND">>)
        ELSE <<>>)

\* the builder's fields as one value
Builder ==
    [ whereConditions |-> whereConditions, whereValues |-> whereValues,
      havingClause |-> havingClause, groupByClause |-> groupByClause,
      orderByClause |-> orderByClause, limitClause |-> limitClause,
      offsetClause |-> offsetClause, selectColumns |-> selectColumns,
      distinctFlag |-> distinctFlag, joins |-> joins ]

\* faulty variant: HAVING is rendered before GROUP BY
toSQLOf_HavingFirst(b) ==
    [ sql |->
          <<"SELECT">> \o (IF b.distinctFlag THEN <<"DISTINCT">> ELSE <<>>)
          \o JoinWith([i \in 1..Len(b.selectColumns) |-> <<b.selectColumns[i]>>], <<",">>)
          \o <<"FROM", tableName>>
          \o (IF Len(b.joins) > 0 THEN JoinWith(b.joins, <<>>) ELSE <<>>)
          \o (IF Len(b.whereConditions) > 0
              THEN <<"WHERE">> \o JoinWith(b.whereConditions, <<"AND">>)
              ELSE <<>>)
          \o b.havingClause
          \o b.groupByClause
          \o b.orderByClause
          \o b.limitClause
          \o b.offsetClause,
      values |-> b.whereValues ]

\* toSQL() on a builder whose fields are b: the rendered SELECT statement and
\* the content of its parameter list
toSQLOf(b) ==
    [ sql |->
          <<"SELECT">> \o (IF b.distinctFlag THEN <<"DISTINCT">> ELSE <<>>)
          \o JoinWith([i \in 1..Len(b.selectColumns) |-> <<b.selectColumns[i]>>], <<",">>)
          \o <<"FROM", tableName>>
          \o (IF Len(b.joins) > 0 THEN JoinWith(b.joins, <<>>) ELSE <<>>)
          \o (IF Len(b.whereConditions) > 0
              THEN <<"WHERE">> \o JoinWith(b.whereConditions, <<"AND">>)
              ELSE <<>>)
          \o b.groupByClause
          \o b.havingClause
          \o b.orderByClause
          \o b.limitClause
          \o b.offsetClause,
      values |-> b.whereValues ]

\* toSQL() on the builder
toSQL == toSQLOf(Builder)

\* the fields of builder b after a call that overwrites a clause
groupByOn(b, columns) == [b EXCEPT !.groupByClause = <<"GROUP BY", columns>>]

orderByOn(b, column, direction) == [b EXCEPT !.orderByClause = <<"ORDER BY", column, direction>>]

havingOn(b, condition, values) ==
    [b EXCEPT !.havingClause = <<"HAVING">> \o condition,
              !.whereValues = b.whereValues \o values]

limitOn(b, count) == [b EXCEPT !.limitClause = <<"LIMIT", count>>]

offsetOn(b, count) == [b EXCEPT !.offsetClause = <<"OFFSET", count>>]

\* faulty variant: the count statement keeps the ORDER BY clause
toCountSQL_Ordered ==
    [ sql |->
          <<"SELECT", "COUNT(*) as count", "FROM", tableName>>
          \o JoinsAndWhere
          \o groupByClause
          \o havingClause
          \o orderByClause,
      values |-> whereValues ]

\* the rendered COUNT statement and the content of its parameter list
toCountSQL ==
    [ sql |->
          <<"SELECT", "COUNT(*) as count", "FROM", tableName>>
          \o (IF Len(joins) > 0 THEN JoinWith(joins, <<>>) ELSE <<>>)
          \o (IF Len(whereConditions) > 0
              THEN <<"WHERE">> \o JoinWith(whereConditions, <<"AND">>)
              ELSE <<>>)
          \o groupByClause
          \o havingClause,
      values |-> whereValues ]

\* the builder's own fields
builderFields == <<whereConditions, whereValues, havingClause, groupByClause,
                   orderByClause, limitClause, offsetClause, selectColumns,
                   distinctFlag, joins>>

\* the caller calls toSQL() and keeps the values list it returns
toSQLCall ==
    /\ nCalls < MaxCalls
    /\ nCalls' = nCalls + 1
    /\ held' = [ from |-> "toSQL", list |-> ReturnedList(toSQL.values) ]
    /\ UNCHANGED <<builderFields, suppliedWhere, suppliedHaving, facadeVars, callerVars, adminVars,
                   tbVars, queryVars>>

\* the caller calls toCountSQL() and keeps the values list it returns
toCountSQLCall ==
    /\ nCalls < MaxCalls
    /\ nCalls' = nCalls + 1
    /\ held' = [ from |-> "toCountSQL", list |-> ReturnedList(toCountSQL.values) ]
    /\ UNCHANGED <<builderFields, suppliedWhere, suppliedHaving, facadeVars, callerVars, adminVars,
                   tbVars, queryVars>>

\* the caller pushes a value onto the list it holds; an array shared with the
\* builder is the builder's parameter array
MutateHeld(value) ==
    /\ nCalls < MaxCalls
    /\ held.from # "none"
    /\ nCalls' = nCalls + 1
    /\ held' = [held EXCEPT !.list.items = Append(@, value)]
    /\ whereValues' = IF held.list.shared THEN Append(whereValues, value) ELSE whereValues
    /\ UNCHANGED <<whereConditions, havingClause, groupByClause, orderByClause,
                   limitClause, offsetClause, selectColumns, distinctFlag, joins,
                   suppliedWhere, suppliedHaving, facadeVars, callerVars, adminVars, tbVars, queryVars>>

QBNext ==
    \/ \E v \in Values : where("a", "=", v)
    \/ \E f \in RawFragments : \E vs \in MatchingValues(f) : whereRaw(f, vs)
    \/ \E vs \in ValueLists : whereIn("a", vs)
    \/ \E vs \in ValueLists : whereNotIn("a", vs)
    \/ whereNull("a")
    \/ whereNotNull("a")
    \/ \E v \in Values : \E w \in Values \ {v} : whereBetween("a", v, w)
    \/ whereLike("a", 1)
    \/ whereNotLike("a", 2)
    \/ \E v \in Values : orWhere("b", "=", v)
    \/ \E c \in HavingConditions : \E vs \in MatchingValues(c) : having(c, vs)
    \/ groupBy("a")
    \/ \E d \in {"ASC", "DESC"} : orderBy("a", d)
    \/ \E n \in {"0", "5"} : limit(n)
    \/ offset("5")
    \/ \E cols \in Projections : select(cols)
    \/ distinct
    \/ join("u", "t.id", "=", "u.id", "INNER")
    \/ leftJoin("v", "t.id", "=", "v.id")
    \/ rightJoin("w", "t.id", "=", "w.id")
    \/ toSQLCall
    \/ toCountSQLCall
    \/ MutateHeld(1)


\* ------------------------------------------------------------------------
\* The engine and the SQLiteTool facade
\* ------------------------------------------------------------------------

\* engine handles the model lets the engine hand out
MaxHandles == 3

\* connect() calls the model lets one caller make
MaxConnects == 2

\* rows the model lets table t hold
MaxRows == 2

\* facade calls the user callback of a transaction makes
MaxCbOps == 2

\* transaction() calls the user callback of a transaction makes
MaxNested == 2

\* the default busy timeout in milliseconds (this._config.timeout)
timeout == 30000

\* _db = null
NoHandle == 0

\* the migrations a caller holds: migration m carries version VersionOf(m),
\* and migration 4 repeats version 1
Migs == {1, 2, 3, 4}

VersionOf(m) == IF m = 4 THEN 1 ELSE m

\* database content: user table t and the migrations tracking table
\*   exists   : table t exists
\*   rows     : rows of t, each [id, v]
\*   migTable : the migrations table exists
\*   mig      : versions of the tracking rows, in rowid order
\*   fx       : the versions whose up procedure's effect is present
EmptyContent ==
    [ exists |-> FALSE, rows |-> {}, migTable |-> FALSE, mig |-> <<>>,
      fx |-> {} ]

Returned(value) == [ status |-> "returned", value |-> value ]

Threw(error) == [ status |-> "threw", value |-> error ]

\* what a caller can observe of the facade and the engine
Snapshot ==
    [ db |-> db, isConnected |-> isConnected, openHandles |-> openHandles,
      disk |-> disk, conn |-> conn, inTx |-> inTx ]

Cmd(name, ok) == [ cmd |-> name, ok |-> ok ]

FacadeInit ==
    /\ db = NoHandle
    /\ isConnected = FALSE
    /\ openHandles = {}
    /\ nextHandle = 1
    /\ inTx = FALSE
    /\ disk = EmptyContent
    /\ conn = EmptyContent
    /\ pc = "idle"
    /\ op = "none"
    /\ outcome = Returned("none")
    /\ cmds = <<>>
    /\ pre = [ db |-> NoHandle, isConnected |-> FALSE, openHandles |-> {},
               disk |-> EmptyContent, conn |-> EmptyContent, inTx |-> FALSE ]
    /\ caught = "none"
    /\ cbOps = 0
    /\ cbStatus = "none"
    /\ cbValue = "none"
    /\ nested = 0
    /\ innerCmds = <<>>
    /\ innerOutcome = Returned("none")
    /\ innerCaught = "none"

\* a call starts: the command log is cleared and the state remembered
StartCall(name) ==
    /\ pc = "idle"
    /\ op' = name
    /\ pre' = Snapshot
    /\ cbStatus' = "none"
    /\ cbValue' = "none"
    /\ cbOps' = 0
    /\ nested' = 0
    /\ innerCmds' = <<>>
    /\ innerOutcome' = Returned("none")
    /\ innerCaught' = "none"

\* the condition under which _ensureConnected throws
NotConnected == ~isConnected \/ db = NoHandle

\* a write through the connection: autocommitted unless a transaction is active
WriteContent(c) ==
    /\ conn' = c
    /\ disk' = IF inTx THEN disk ELSE c

\* ---- connect / close ----

connect ==
    /\ StartCall("connect")
    /\ nextHandle <= MaxHandles \/ isConnected
    /\ cmds' = <<>>
    /\ IF isConnected
       THEN /\ outcome' = Returned("void")
            /\ pc' = "idle"
       ELSE /\ outcome' = outcome
            /\ pc' = "open"
    /\ UNCHANGED <<db, isConnected, openHandles, nextHandle, inTx, disk, conn, caught>>
    /\ UNCHANGED <<qbVars, callerVars, tbVars, queryVars, adminVars>>

\* the await of open() resumes
ConnectOpen ==
    /\ pc = "open"
    /\ \E ok \in BOOLEAN :
         /\ cmds' = Append(cmds, Cmd("open", ok))
         /\ IF ok
            THEN /\ db' = nextHandle
                 /\ openHandles' = openHandles \cup {nextHandle}
                 /\ nextHandle' = nextHandle + 1
                 /\ IF timeout # 0
                    THEN /\ pc' = "pragma"
                         /\ UNCHANGED <<isConnected, outcome>>
                    ELSE /\ isConnected' = TRUE
                         /\ outcome' = Returned("void")
                         /\ pc' = "idle"
            ELSE /\ outcome' = Threw("OpenError")
                 /\ pc' = "idle"
                 /\ UNCHANGED <<db, isConnected, openHandles, nextHandle>>
    /\ UNCHANGED <<inTx, disk, conn, op, pre, caught, cbOps, cbStatus, cbValue>>
    /\ UNCHANGED <<qbVars, callerVars, tbVars, queryVars, nestVars, adminVars>>

\* the await of exec(PRAGMA busy_timeout) resumes
ConnectPragma ==
    /\ pc = "pragma"
    /\ \E ok \in BOOLEAN :
         /\ cmds' = Append(cmds, Cmd("PRAGMA", ok))
         /\ IF ok
            THEN /\ isConnected' = TRUE
                 /\ outcome' = Returned("void")
            ELSE /\ isConnected' = isConnected
                 /\ outcome' = Threw("PragmaError")
    /\ pc' = "idle"
    /\ UNCHANGED <<db, openHandles, nextHandle, inTx, disk, conn, op, pre, caught,
                   cbOps, cbStatus, cbValue>>
    /\ UNCHANGED <<qbVars, callerVars, tbVars, queryVars, nestVars, adminVars>>

close ==
    /\ StartCall("close")
    /\ cmds' = <<>>
    /\ IF NotConnected
       THEN /\ outcome' = Returned("void")
            /\ pc' = "idle"
       ELSE /\ outcome' = outcome
            /\ pc' = "closing"
    /\ UNCHANGED <<db, isConnected, openHandles, nextHandle, inTx, disk, conn, caught>>
    /\ UNCHANGED <<qbVars, callerVars, tbVars, queryVars, adminVars>>

\* the await of the engine's close() resumes
CloseDone ==
    /\ pc = "closing"
    /\ \E ok \in BOOLEAN :
         /\ cmds' = Append(cmds, Cmd("close", ok))
         /\ IF ok
            THEN /\ openHandles' = openHandles \ {db}
                 /\ isConnected' = FALSE
                 /\ db' = NoHandle
                 /\ outcome' = Returned("void")
            ELSE /\ outcome' = Threw("CloseError")
                 /\ UNCHANGED <<openHandles, isConnected, db>>
    /\ pc' = "idle"
    /\ UNCHANGED <<nextHandle, inTx, disk, conn, op, pre, caught, cbOps, cbStatus, cbValue>>
    /\ UNCHANGED <<qbVars, callerVars, tbVars, queryVars, nestVars, adminVars>>

\* ---- data operations (called between transactions) ----

\* a data operation that throws before reaching the engine
FailFast(error) ==
    /\ outcome' = Threw(error)
    /\ cmds' = <<>>
    /\ pc' = "idle"
    /\ UNCHANGED <<db, isConnected, openHandles, nextHandle, inTx, disk, conn, caught>>

\* a data operation that issues one engine command and returns or throws
Issue(name, ok, content, result) ==
    /\ cmds' = <<Cmd(name, ok)>>
    /\ WriteContent(content)
    /\ outcome' = result
    /\ pc' = "idle"
    /\ UNCHANGED <<db, isConnected, openHandles, nextHandle, inTx, caught>>

\* the row INSERT adds: rowid one above the largest, column v unset
NewRow(c) ==
    [ id |-> IF c.rows = {} THEN 1
             ELSE (CHOOSE r \in c.rows : \A q \in c.rows : q.id <= r.id).id + 1,
      v |-> 0 ]

createTable ==
    /\ StartCall("createTable")
    /\ IF NotConnected
       THEN FailFast("NotConnected")
       ELSE Issue("CREATE TABLE", TRUE, [conn EXCEPT !.exists = TRUE], Returned("void"))
    /\ UNCHANGED <<qbVars, callerVars, tbVars, queryVars, adminVars>>

dropTable ==
    /\ StartCall("dropTable")
    /\ IF NotConnected
       THEN FailFast("NotConnected")
       ELSE Issue("DROP TABLE", TRUE, [conn EXCEPT !.exists = FALSE, !.rows = {}],
                  Returned("void"))
    /\ UNCHANGED <<qbVars, callerVars, tbVars, queryVars, adminVars>>

tableExists ==
    /\ StartCall("tableExists")
    /\ IF NotConnected
       THEN FailFast("NotConnected")
       ELSE Issue("SELECT", TRUE, conn, Returned(conn.exists))
    /\ UNCHANGED <<qbVars, callerVars, tbVars, queryVars, adminVars>>

insert ==
    /\ StartCall("insert")
    /\ IF NotConnected
       THEN FailFast("NotConnected")
       ELSE IF ~conn.exists
       THEN Issue("INSERT", FALSE, conn, Threw("EngineError"))
       ELSE \E ok \in BOOLEAN :
              /\ ok => Cardinality(conn.rows) < MaxRows
              /\ IF ok
                 THEN Issue("INSERT", TRUE,
                            [conn EXCEPT !.rows = conn.rows \cup {NewRow(conn)}],
                            Returned(NewRow(conn).id))
                 ELSE Issue("INSERT", FALSE, conn, Threw("EngineError"))
    /\ UNCHANGED <<qbVars, callerVars, tbVars, queryVars, adminVars>>

find ==
    /\ StartCall("find")
    /\ IF NotConnected
       THEN FailFast("NotConnected")
       ELSE IF ~conn.exists
       THEN Issue("SELECT", FALSE, conn, Threw("EngineError"))
       ELSE Issue("SELECT", TRUE, conn, Returned(conn.rows))
    /\ UNCHANGED <<qbVars, callerVars, tbVars, queryVars, adminVars>>

\* update(table, {v: value}) with no conditions: every row is changed
update ==
    /\ StartCall("update")
    /\ IF NotConnected
       THEN FailFast("NotConnected")
       ELSE IF ~conn.exists
       THEN Issue("UPDATE", FALSE, conn, Threw("EngineError"))
       ELSE \E value \in Values :
              Issue("UPDATE", TRUE,
                    [conn EXCEPT !.rows = { [r EXCEPT !.v = value] : r \in conn.rows }],
                    Returned(Cardinality(conn.rows)))
    /\ UNCHANGED <<qbVars, callerVars, tbVars, queryVars, adminVars>>

\* delete(table) with no conditions: every row is removed
delete ==
    /\ StartCall("delete")
    /\ IF NotConnected
       THEN FailFast("NotConnected")
       ELSE IF ~conn.exists
       THEN Issue("DELETE", FALSE, conn, Threw("EngineError"))
       ELSE Issue("DELETE", TRUE, [conn EXCEPT !.rows = {}],
                  Returned(Cardinality(conn.rows)))
    /\ UNCHANGED <<qbVars, callerVars, tbVars, queryVars, adminVars>>

count ==
    /\ StartCall("count")
    /\ IF NotConnected
       THEN FailFast("NotConnected")
       ELSE IF ~conn.exists
       THEN Issue("SELECT", FALSE, conn, Threw("EngineError"))
       ELSE Issue("SELECT", TRUE, conn, Returned(Cardinality(conn.rows)))
    /\ UNCHANGED <<qbVars, callerVars, tbVars, queryVars, adminVars>>

\* ---- transaction ----

\* the body of transaction() up to its first await: _ensureConnected throws
\* into the catch block, otherwise BEGIN is sent
EnterTransaction ==
    /\ IF NotConnected
       THEN /\ caught' = "NotConnected"
            /\ pc' = "rollback"
       ELSE /\ caught' = "none"
            /\ pc' = "begin"
    /\ outcome' = outcome
    /\ cmds' = <<>>
    /\ UNCHANGED <<db, isConnected, openHandles, nextHandle, inTx, disk, conn>>

transaction ==
    /\ StartCall("transaction")
    /\ EnterTransaction
    /\ cbKind' = "user"
    /\ UNCHANGED <<migrations, supplied, rbCount, results, todo, appliedVersions,
                   upLog, downLog, failed, repeated>>
    /\ UNCHANGED <<qbVars, callerVars, tbVars, queryVars>>

\* the await of exec(BEGIN) resumes; BEGIN inside a transaction is an engine error
TxBegin ==
    /\ pc = "begin"
    /\ \E ok \in BOOLEAN :
         /\ ok => ~inTx
         /\ cmds' = Append(cmds, Cmd("BEGIN", ok))
         /\ IF ok
            THEN /\ inTx' = TRUE
                 /\ pc' = "callback"
                 /\ caught' = caught
            ELSE /\ inTx' = inTx
                 /\ pc' = "rollback"
                 /\ caught' = "BeginError"
    /\ UNCHANGED <<db, isConnected, openHandles, nextHandle, disk, conn, op, outcome,
                   pre, cbOps, cbStatus, cbValue>>
    /\ UNCHANGED <<qbVars, callerVars, tbVars, queryVars, nestVars, adminVars>>

\* the user callback awaits this.insert(...): it succeeds, fails leaving the
\* transaction active (a constraint error), or fails with an error on which
\* the engine rolls the transaction back by itself (disk full, I/O error);
\* the callback lets the error escape
CbInsert ==
    /\ pc = "callback"
    /\ cbKind = "user"
    /\ cbOps < MaxCbOps
    /\ conn.exists
    /\ cbOps' = cbOps + 1
    /\ \E res \in {"ok", "failed", "aborted"} :
         /\ res = "ok" => Cardinality(conn.rows) < MaxRows
         /\ cmds' = Append(cmds, Cmd("INSERT", res = "ok"))
         /\ IF res = "ok"
            THEN /\ WriteContent([conn EXCEPT !.rows = conn.rows \cup {NewRow(conn)}])
                 /\ UNCHANGED <<inTx, pc, caught, cbStatus, cbValue>>
            ELSE /\ IF res = "aborted"
                    THEN /\ conn' = disk
                         /\ inTx' = FALSE
                    ELSE UNCHANGED <<conn, inTx>>
                 /\ disk' = disk
                 /\ pc' = "rollback"
                 /\ caught' = "EngineError"
                 /\ cbStatus' = "threw"
                 /\ cbValue' = "EngineError"
    /\ UNCHANGED <<db, isConnected, openHandles, nextHandle, op, outcome, pre>>
    /\ UNCHANGED <<qbVars, callerVars, tbVars, queryVars, nestVars, adminVars>>

\* the user callback resolves with a result
CbReturn ==
    /\ pc = "callback"
    /\ cbKind = "user"
    /\ \E value \in Values :
         /\ cbStatus' = "returned"
         /\ cbValue' = value
    /\ pc' = "commit"
    /\ UNCHANGED <<db, isConnected, openHandles, nextHandle, inTx, disk, conn, op,
                   outcome, cmds, pre, caught, cbOps>>
    /\ UNCHANGED <<qbVars, callerVars, tbVars, queryVars, nestVars, adminVars>>

\* the user callback throws an error of its own
CbThrow ==
    /\ pc = "callback"
    /\ cbKind = "user"
    /\ cbStatus' = "threw"
    /\ cbValue' = "CallbackError"
    /\ caught' = "CallbackError"
    /\ pc' = "rollback"
    /\ UNCHANGED <<db, isConnected, openHandles, nextHandle, inTx, disk, conn, op,
                   outcome, cmds, pre, cbOps>>
    /\ UNCHANGED <<qbVars, callerVars, tbVars, queryVars, nestVars, adminVars>>

\* ---- a transaction() call made by the callback of a transaction() ----

\* the callback awaits this.transaction(inner): the same method body runs on
\* the same facade; _ensureConnected throws into the inner catch block,
\* otherwise BEGIN is sent
CbTransaction ==
    /\ pc = "callback"
    /\ cbKind = "user"
    /\ nested < MaxNested
    /\ nested' = nested + 1
    /\ innerCmds' = <<>>
    /\ innerOutcome' = [ status |-> "pending", value |-> "none" ]
    /\ IF NotConnected
       THEN /\ innerCaught' = "NotConnected"
            /\ pc' = "innerRollback"
       ELSE /\ innerCaught' = "none"
            /\ pc' = "innerBegin"
    /\ UNCHANGED <<db, isConnected, openHandles, nextHandle, inTx, disk, conn, op,
                   outcome, cmds, pre, caught, cbOps, cbStatus, cbValue>>
    /\ UNCHANGED <<qbVars, callerVars, tbVars, queryVars, adminVars>>

\* the inner await of exec(BEGIN) resumes: the engine refuses BEGIN while a
\* transaction is active on the connection
InnerBegin ==
    /\ pc = "innerBegin"
    /\ \E ok \in BOOLEAN :
         /\ ok => ~inTx
         /\ innerCmds' = Append(innerCmds, Cmd("BEGIN", ok))
         /\ IF ok
            THEN /\ inTx' = TRUE
                 /\ pc' = "innerCallback"
                 /\ innerCaught' = innerCaught
            ELSE /\ inTx' = inTx
                 /\ pc' = "innerRollback"
                 /\ innerCaught' = "BeginError"
    /\ UNCHANGED <<db, isConnected, openHandles, nextHandle, disk, conn, op, outcome,
                   cmds, pre, caught, cbOps, cbStatus, cbValue, nested, innerOutcome>>
    /\ UNCHANGED <<qbVars, callerVars, tbVars, queryVars, adminVars>>

\* the inner callback resolves
InnerCbReturn ==
    /\ pc = "innerCallback"
    /\ pc' = "innerCommit"
    /\ UNCHANGED <<db, isConnected, openHandles, nextHandle, inTx, disk, conn, op,
                   outcome, cmds, pre, caught, cbOps, cbStatus, cbValue, nestVars>>
    /\ UNCHANGED <<qbVars, callerVars, tbVars, queryVars, adminVars>>

\* the inner callback throws
InnerCbThrow ==
    /\ pc = "innerCallback"
    /\ innerCaught' = "InnerCallbackError"
    /\ pc' = "innerRollback"
    /\ UNCHANGED <<db, isConnected, openHandles, nextHandle, inTx, disk, conn, op,
                   outcome, cmds, pre, caught, cbOps, cbStatus, cbValue, nested,
                   innerCmds, innerOutcome>>
    /\ UNCHANGED <<qbVars, callerVars, tbVars, queryVars, adminVars>>

\* the inner await of exec(COMMIT) resumes; on success the inner call returns
\* to the outer callback
InnerCommit ==
    /\ pc = "innerCommit"
    /\ \E ok \in BOOLEAN :
         /\ ok => inTx
         /\ innerCmds' = Append(innerCmds, Cmd("COMMIT", ok))
         /\ IF ok
            THEN /\ disk' = conn
                 /\ inTx' = FALSE
                 /\ innerOutcome' = Returned("innerResult")
                 /\ pc' = "callback"
                 /\ innerCaught' = innerCaught
            ELSE /\ innerCaught' = "CommitError"
                 /\ pc' = "innerRollback"
                 /\ UNCHANGED <<disk, inTx, innerOutcome>>
    /\ UNCHANGED <<db, isConnected, openHandles, nextHandle, conn, op, outcome, cmds,
                   pre, caught, cbOps, cbStatus, cbValue, nested>>
    /\ UNCHANGED <<qbVars, callerVars, tbVars, queryVars, adminVars>>

\* the error the inner call raises from its catch block
InnerError == IF inTx THEN innerCaught ELSE "RollbackError"

\* the inner catch block: exec(ROLLBACK), which ends whatever transaction is
\* active on the connection, then the inner call throws; the outer callback
\* either handles the error and goes on, or lets it escape
InnerRollback ==
    /\ pc = "innerRollback"
    /\ innerCmds' = Append(innerCmds, Cmd("ROLLBACK", inTx))
    /\ conn' = disk
    /\ inTx' = FALSE
    /\ innerOutcome' = Threw(InnerError)
    /\ \E handled \in BOOLEAN :
         IF handled
         THEN /\ pc' = "callback"
              /\ UNCHANGED <<caught, cbStatus, cbValue>>
         ELSE /\ pc' = "rollback"
              /\ caught' = InnerError
              /\ cbStatus' = "threw"
              /\ cbValue' = InnerError
    /\ UNCHANGED <<db, isConnected, openHandles, nextHandle, disk, op, outcome, cmds,
                   pre, cbOps, nested, innerCaught>>
    /\ UNCHANGED <<qbVars, callerVars, tbVars, queryVars, adminVars>>

\* what the call in progress resolves with once COMMIT succeeded:
\* transaction() returns the callback's result, the admin calls their results
CallResult == IF cbKind = "user" THEN cbValue ELSE results

\* the await of exec(COMMIT) resumes; a COMMIT that fails (database busy)
\* leaves the transaction active and throws into the catch block
TxCommit ==
    /\ pc = "commit"
    /\ \E ok \in BOOLEAN :
         /\ ok => inTx
         /\ cmds' = Append(cmds, Cmd("COMMIT", ok))
         /\ IF ok
            THEN /\ disk' = conn
                 /\ inTx' = FALSE
                 /\ outcome' = Returned(CallResult)
                 /\ pc' = "idle"
                 /\ caught' = caught
            ELSE /\ caught' = "CommitError"
                 /\ pc' = "rollback"
                 /\ UNCHANGED <<disk, inTx, outcome>>
    /\ UNCHANGED <<db, isConnected, openHandles, nextHandle, conn, op, pre,
                   cbOps, cbStatus, cbValue>>
    /\ UNCHANGED <<qbVars, callerVars, tbVars, queryVars, nestVars, adminVars>>

\* faulty variant: a failure of ROLLBACK is swallowed and the caught error rethrown
TxRollback_Swallowed ==
    /\ pc = "rollback"
    /\ IF db = NoHandle
       THEN /\ outcome' = Threw("TypeError")
            /\ UNCHANGED <<cmds, conn, inTx>>
       ELSE /\ cmds' = Append(cmds, Cmd("ROLLBACK", inTx))
            /\ conn' = disk
            /\ inTx' = FALSE
            /\ outcome' = Threw(caught)
    /\ pc' = "idle"
    /\ UNCHANGED <<db, isConnected, openHandles, nextHandle, disk, op, pre, caught,
                   cbOps, cbStatus, cbValue>>
    /\ UNCHANGED <<qbVars, callerVars, tbVars, queryVars, nestVars, adminVars>>

\* faulty variant: the catch block rethrows without issuing ROLLBACK
TxRollback_Skipped ==
    /\ pc = "rollback"
    /\ outcome' = Threw(caught)
    /\ pc' = "idle"
    /\ UNCHANGED <<db, isConnected, openHandles, nextHandle, inTx, disk, conn, op,
                   cmds, pre, caught, cbOps, cbStatus, cbValue>>
    /\ UNCHANGED <<qbVars, callerVars, tbVars, queryVars, nestVars, adminVars>>

\* the catch block: exec(ROLLBACK) on this._db, then the caught error is
\* rethrown. With no handle held the call on null throws a TypeError; ROLLBACK
\* with no transaction active is an engine error, which replaces the caught one
TxRollback ==
    /\ pc = "rollback"
    /\ IF db = NoHandle
       THEN /\ outcome' = Threw("TypeError")
            /\ UNCHANGED <<cmds, conn, inTx>>
       ELSE /\ cmds' = Append(cmds, Cmd("ROLLBACK", inTx))
            /\ conn' = disk
            /\ inTx' = FALSE
            /\ outcome' = IF inTx THEN Threw(caught) ELSE Threw("RollbackError")
    /\ pc' = "idle"
    /\ UNCHANGED <<db, isConnected, openHandles, nextHandle, disk, op, pre, caught,
                   cbOps, cbStatus, cbValue>>
    /\ UNCHANGED <<qbVars, callerVars, tbVars, queryVars, nestVars, adminVars>>

\* ------------------------------------------------------------------------
\* TableBuilder
\* ------------------------------------------------------------------------

\* number of calls made on one TableBuilder
MaxTBCalls == 4

\* the error every modifier throws when _currentColumn is null
NoColumnSelected == "No column selected. Call a column type method first."

\* the caller holds no build() result
NoResult == [ from |-> "none", columns |-> <<>>, constraints |-> ReturnedList(<<>>) ]

TBInit ==
    /\ tbColumns = <<>>
    /\ tbConstraints = <<>>
    /\ tbCurrentColumn = 0
    /\ tbCalls = 0
    /\ tbOutcome = Returned("none")
    /\ tbHeld = NoResult
    /\ tbSince = "no"

\* a TableBuilder call is made
TBCall ==
    /\ tbCalls < MaxTBCalls
    /\ tbCalls' = tbCalls + 1
    /\ UNCHANGED <<qbVars, callerVars, facadeVars, adminVars, queryVars>>

\* _escapeValue on the values the model passes to default(): the keyword
\* CURRENT_TIMESTAMP is kept as it is, any other string is quoted
escapeValue(value) ==
    IF value = "CURRENT_TIMESTAMP" THEN <<value>> ELSE <<"'", value, "'">>

\* a column object is created, made the current column and pushed
PushColumn(name, type, modifiers) ==
    /\ tbColumns' = Append(tbColumns, [ name |-> name, type |-> type, modifiers |-> modifiers ])
    /\ tbCurrentColumn' = Len(tbColumns) + 1
    /\ tbOutcome' = Returned("this")
    /\ tbSince' = "no"
    /\ UNCHANGED <<tbConstraints, tbHeld>>

\* faulty variant: a modifier with no current column is ignored silently
PushModifier_Silent(fragment) ==
    IF tbCurrentColumn = 0
    THEN /\ tbOutcome' = Returned("this")
         /\ UNCHANGED <<tbColumns, tbConstraints, tbCurrentColumn, tbHeld, tbSince>>
    ELSE /\ tbColumns' = [tbColumns EXCEPT ![tbCurrentColumn].modifiers = Append(@, fragment)]
         /\ tbOutcome' = Returned("this")
         /\ tbSince' = IF tbSince = "constraint" THEN "modified" ELSE tbSince
         /\ UNCHANGED <<tbConstraints, tbCurrentColumn, tbHeld>>

\* faulty variant: the modifier goes to the first column declared
PushModifier_FirstColumn(fragment) ==
    IF tbCurrentColumn = 0
    THEN /\ tbOutcome' = Threw(NoColumnSelected)
         /\ UNCHANGED <<tbColumns, tbConstraints, tbCurrentColumn, tbHeld, tbSince>>
    ELSE /\ tbColumns' = [tbColumns EXCEPT ![1].modifiers = Append(@, fragment)]
         /\ tbOutcome' = Returned("this")
         /\ tbSince' = IF tbSince = "constraint" THEN "modified" ELSE tbSince
         /\ UNCHANGED <<tbConstraints, tbCurrentColumn, tbHeld>>

\* a modifier: throws with no current column, otherwise pushes onto the
\* modifier list of the column object _currentColumn refers to
PushModifier(fragment) ==
    IF tbCurrentColumn = 0
    THEN /\ tbOutcome' = Threw(NoColumnSelected)
         /\ UNCHANGED <<tbColumns, tbConstraints, tbCurrentColumn, tbHeld, tbSince>>
    ELSE /\ tbColumns' = [tbColumns EXCEPT ![tbCurrentColumn].modifiers = Append(@, fragment)]
         /\ tbOutcome' = Returned("this")
         /\ tbSince' = IF tbSince = "constraint" THEN "modified" ELSE tbSince
         /\ UNCHANGED <<tbConstraints, tbCurrentColumn, tbHeld>>

id(name) ==
    /\ TBCall
    /\ PushColumn(name, <<"INTEGER">>, << <<"PRIMARY KEY">>, <<"AUTOINCREMENT">> >>)

\* length 0 stands for an omitted length
string(name, length) ==
    /\ TBCall
    /\ PushColumn(name, IF length # 0 THEN <<"TEXT(", length, ")">> ELSE <<"TEXT">>, <<>>)

text(name) ==
    string(name, 0)

integer(name) ==
    /\ TBCall
    /\ PushColumn(name, <<"INTEGER">>, <<>>)

real(name) ==
    /\ TBCall
    /\ PushColumn(name, <<"REAL">>, <<>>)

boolean(name) ==
    /\ TBCall
    /\ PushColumn(name, <<"INTEGER">>, <<>>)

blob(name) ==
    /\ TBCall
    /\ PushColumn(name, <<"BLOB">>, <<>>)

\* the column is pushed and default('CURRENT_TIMESTAMP') applied to it
date(name) ==
    /\ TBCall
    /\ tbColumns' = Append(tbColumns,
                           [ name |-> name, type |-> <<"TEXT">>,
                             modifiers |-> << <<"DEFAULT">> \o escapeValue("CURRENT_TIMESTAMP") >> ])
    /\ tbCurrentColumn' = Len(tbColumns) + 1
    /\ tbOutcome' = Returned("this")
    /\ tbSince' = "no"
    /\ UNCHANGED <<tbConstraints, tbHeld>>

timestamp(name) ==
    /\ TBCall
    /\ PushColumn(name, <<"INTEGER">>, <<>>)

numeric(name) ==
    /\ TBCall
    /\ PushColumn(name, <<"NUMERIC">>, <<>>)

json(name) ==
    /\ TBCall
    /\ PushColumn(name, <<"TEXT">>, <<>>)

primaryKey ==
    /\ TBCall
    /\ PushModifier(<<"PRIMARY KEY">>)

autoIncrement ==
    /\ TBCall
    /\ PushModifier(<<"AUTOINCREMENT">>)

notNull ==
    /\ TBCall
    /\ PushModifier(<<"NOT NULL">>)

unique ==
    /\ TBCall
    /\ PushModifier(<<"UNIQUE">>)

default(value) ==
    /\ TBCall
    /\ PushModifier(<<"DEFAULT">> \o escapeValue(value))

check(expression) ==
    /\ TBCall
    /\ PushModifier(<<"CHECK", "(", expression, ")">>)

collate(collation) ==
    /\ TBCall
    /\ PushModifier(<<"COLLATE", collation>>)

\* a table constraint is pushed
PushConstraint(constraint) ==
    /\ tbConstraints' = Append(tbConstraints, constraint)
    /\ tbOutcome' = Returned("this")
    /\ tbSince' = "constraint"
    /\ UNCHANGED <<tbColumns, tbCurrentColumn, tbHeld>>

\* the last constraint is replaced when it passes the test, otherwise
\* nothing happens
ExtendLast(passes, suffix) ==
    /\ IF Len(tbConstraints) > 0 /\ passes
       THEN tbConstraints' = [tbConstraints EXCEPT ![Len(tbConstraints)] = @ \o suffix]
       ELSE tbConstraints' = tbConstraints
    /\ tbOutcome' = Returned("this")
    /\ tbSince' = "constraint"
    /\ UNCHANGED <<tbColumns, tbCurrentColumn, tbHeld>>

\* the last element of _constraints
lastConstraint == tbConstraints[Len(tbConstraints)]

\* lastConstraint.startsWith('FOREIGN KEY')
StartsWithForeignKey(constraint) == Len(constraint) > 0 /\ constraint[1] = "FOREIGN KEY"

\* the tokens of the model whose text contains the substring 'REFERENCES'
TokensWithReferences == { "REFERENCES", "kind <> 'REFERENCES'" }

\* lastConstraint.includes('REFERENCES'): a substring search over the whole text
IncludesReferences(constraint) ==
    \E i \in 1..Len(constraint) : constraint[i] \in TokensWithReferences

foreignKey(columnName) ==
    /\ TBCall
    /\ PushConstraint(<<"FOREIGN KEY", "(", columnName, ")">>)

\* tableColumn is 'table.column', given here as its two parts
references(table, column) ==
    /\ TBCall
    /\ ExtendLast(Len(tbConstraints) > 0 /\ StartsWithForeignKey(lastConstraint),
                  <<"REFERENCES", table, "(", column, ")">>)

onDelete(action) ==
    /\ TBCall
    /\ ExtendLast(Len(tbConstraints) > 0 /\ IncludesReferences(lastConstraint),
                  <<"ON DELETE", action>>)

onUpdate(action) ==
    /\ TBCall
    /\ ExtendLast(Len(tbConstraints) > 0 /\ IncludesReferences(lastConstraint),
                  <<"ON UPDATE", action>>)

primary(columnList) ==
    /\ TBCall
    /\ PushConstraint(<<"PRIMARY KEY", "(", columnList, ")">>)

uniqueConstraint(columnList) ==
    /\ TBCall
    /\ PushConstraint(<<"UNIQUE", "(", columnList, ")">>)

checkConstraint(expression) ==
    /\ TBCall
    /\ PushConstraint(<<"CHECK", "(", expression, ")">>)

\* faulty variant: the modifiers are left out of the column texts
build_TypeOnly ==
    [ columns |-> [ i \in 1..Len(tbColumns) |-> <<tbColumns[i].name>> \o tbColumns[i].type ],
      constraints |-> ReturnedList(tbConstraints) ]

\* build(): one text per column, the modifiers joined by spaces after the
\* name and the type, and a copy of the constraint list
build ==
    [ columns |->
        [ i \in 1..Len(tbColumns) |->
            LET col == tbColumns[i]
                definition == <<col.name>> \o col.type
            IN  IF Len(col.modifiers) > 0
                THEN definition \o JoinWith(col.modifiers, <<>>)
                ELSE definition ],
      constraints |-> ReturnedList(tbConstraints) ]

\* the caller calls build() and keeps the result
buildCall ==
    /\ TBCall
    /\ tbHeld' = [ from |-> "build", columns |-> build.columns,
                   constraints |-> build.constraints ]
    /\ tbOutcome' = Returned("result")
    /\ UNCHANGED <<tbColumns, tbConstraints, tbCurrentColumn, tbSince>>

\* the caller pushes a text onto one of the two lists of the result it
\* holds; the builder's list changes with it when it is the same array
MutateBuilt(list, item) ==
    /\ TBCall
    /\ tbHeld.from = "build"
    /\ IF list = "columns"
       THEN /\ tbHeld' = [tbHeld EXCEPT !.columns = Append(@, item)]
            /\ UNCHANGED tbConstraints
       ELSE /\ tbHeld' = [tbHeld EXCEPT !.constraints.items = Append(@, item)]
            /\ tbConstraints' = IF tbHeld.constraints.shared
                                THEN Append(tbConstraints, item)
                                ELSE tbConstraints
    /\ UNCHANGED <<tbColumns, tbCurrentColumn, tbOutcome, tbSince>>

TBNext ==
    \/ id("id")
    \/ \E length \in {0, 10} : string("a", length)
    \/ text("a")
    \/ \E name \in {"a", "b"} : integer(name)
    \/ real("a")
    \/ boolean("a")
    \/ blob("a")
    \/ date("a")
    \/ timestamp("a")
    \/ numeric("a")
    \/ json("a")
    \/ primaryKey
    \/ autoIncrement
    \/ notNull
    \/ unique
    \/ \E value \in {"x", "CURRENT_TIMESTAMP"} : default(value)
    \/ check("a > 0")
    \/ collate("NOCASE")
    \/ foreignKey("a")
    \/ references("u", "id")
    \/ onDelete("CASCADE")
    \/ onUpdate("CASCADE")
    \/ primary("a, b")
    \/ uniqueConstraint("a, b")
    \/ \E expression \in {"a > 0", "kind <> 'REFERENCES'"} : checkConstraint(expression)
    \/ buildCall
    \/ \E list \in {"columns", "constraints"} : MutateBuilt(list, <<"x">>)

\* ------------------------------------------------------------------------
\* The query operations of the facade: find, findOne, update, delete,
\* count, findPaginated, over an engine that executes the SQL text
\* ------------------------------------------------------------------------

\* JavaScript values a caller passes and the engine binds or stores
\*   t = "number" : the number n          t = "string" : the text s
\*   t = "null"   : null                  t = "array"  : the array of numbers items
\*   t = "object" : the object { operator: s, value: n }
Num(n) == [ t |-> "number", n |-> n, s |-> "", items |-> <<>> ]

Null == [ t |-> "null", n |-> 0, s |-> "", items |-> <<>> ]

Str(s) == [ t |-> "string", n |-> 0, s |-> s, items |-> <<>> ]

Arr(items) == [ t |-> "array", n |-> 0, s |-> "", items |-> items ]

Obj(operator, n) == [ t |-> "object", n |-> n, s |-> operator, items |-> <<>> ]

\* the further values a record can hold:
\*   t = "undefined" : undefined          t = "boolean" : true or false, named by s
\*   t = "date"      : a Date n ms after the epoch, or the invalid Date (s = "NaN")
\*   t = "cyclic"    : an object that holds itself
Undefined == [ t |-> "undefined", n |-> 0, s |-> "", items |-> <<>> ]

Bool(b) == [ t |-> "boolean", n |-> 0, s |-> IF b THEN "true" ELSE "false", items |-> <<>> ]

DateAt(ms) == [ t |-> "date", n |-> ms, s |-> "", items |-> <<>> ]

InvalidDate == [ t |-> "date", n |-> 0, s |-> "NaN", items |-> <<>> ]

Cyclic == [ t |-> "cyclic", n |-> 0, s |-> "", items |-> <<>> ]

\* Array.isArray(value)
IsArray(value) == value.t = "array"

\* value && typeof value === 'object' && 'operator' in value
HasOperator(value) == value.t = "object"

RECURSIVE JoinText(_, _)
\* Array.prototype.join on texts
JoinText(parts, sep) ==
    IF parts = <<>> THEN ""
    ELSE IF Len(parts) = 1 THEN Head(parts)
    ELSE Head(parts) \o sep \o JoinText(Tail(parts), sep)

\* JSON.stringify on the arrays and objects of the model
JSONStringify(value) ==
    IF value.t = "array"
    THEN "[" \o JoinText([i \in 1..Len(value.items) |-> ToString(value.items[i])], ",") \o "]"
    ELSE "{\"operator\":\"" \o value.s \o "\",\"value\":" \o ToString(value.n) \o "}"

\* Date.prototype.toISOString for a Date less than ten ms after the epoch
toISOString(value) == "1970-01-01T00:00:00.00" \o ToString(value.n) \o "Z"

\* _prepareValue raises: toISOString throws RangeError on the invalid Date,
\* JSON.stringify throws TypeError on an object that holds itself
PrepareRaises(value) ==
    \/ value.t = "date" /\ value.s = "NaN"
    \/ value.t = "cyclic"

\* the error _prepareValue raises on value
PrepareError(value) == IF value.t = "date" THEN "RangeError" ELSE "TypeError"

\* faulty variant: a boolean is bound as it is
prepareValue_BooleanUnchanged(value) ==
    IF value.t \in {"null", "undefined"} THEN Null
    ELSE IF value.t = "date" THEN Str(toISOString(value))
    ELSE IF value.t \in {"array", "object"} THEN Str(JSONStringify(value))
    ELSE value

\* _prepareValue where it returns: null and undefined become null, a Date
\* its ISO text, a boolean 1 or 0, an object or array its JSON text, every
\* other value is returned as it is
prepareValue(value) ==
    IF value.t \in {"null", "undefined"} THEN Null
    ELSE IF value.t = "date" THEN Str(toISOString(value))
    ELSE IF value.t = "boolean" THEN (IF value.s = "true" THEN Num(1) ELSE Num(0))
    ELSE IF value.t \in {"array", "object"} THEN Str(JSONStringify(value))
    ELSE value

\* ---- the engine ----

\* the keywords that start a clause of a statement
ClauseKeywords == {"SET", "WHERE", "GROUP BY", "HAVING", "ORDER BY", "LIMIT", "OFFSET"}

\* the number a numeric token denotes
NumberOf(token) == CHOOSE n \in 0..9 : ToString(n) = token

RECURSIVE IndexFrom(_, _, _)
\* the first position at or after i of a token of S in sql, 0 if none
IndexFrom(sql, S, i) ==
    IF i > Len(sql) THEN 0
    ELSE IF sql[i] \in S THEN i
    ELSE IndexFrom(sql, S, i + 1)

\* the tokens of the clause that keyword starts, without the keyword;
\* <<>> when the statement has no such clause
ClauseBody(sql, keyword) ==
    LET k == IndexFrom(sql, {keyword}, 1)
        next == IF k = 0 THEN 0 ELSE IndexFrom(sql, ClauseKeywords, k + 1)
    IN  IF k = 0 THEN <<>>
        ELSE SubSeq(sql, k + 1, IF next = 0 THEN Len(sql) ELSE next - 1)

HasClause(sql, keyword) == IndexFrom(sql, {keyword}, 1) # 0

RECURSIVE SplitOn(_, _)
\* the token sequence cut at each separator token
SplitOn(tokens, sep) ==
    LET k == IndexFrom(tokens, {sep}, 1)
    IN  IF tokens = <<>> THEN <<>>
        ELSE IF k = 0 THEN <<tokens>>
        ELSE <<SubSeq(tokens, 1, k - 1)>> \o SplitOn(SubSeq(tokens, k + 1, Len(tokens)), sep)

\* comparison of two stored or bound values: a comparison with NULL is
\* never true; a number sorts before a text
Compare(x, operator, y) ==
    IF x.t = "null" \/ y.t = "null" THEN FALSE
    ELSE LET less == \/ x.t = "number" /\ y.t = "number" /\ x.n < y.n
                     \/ x.t = "number" /\ y.t = "string"
         IN  CASE operator = "=" -> x = y
               [] operator = "!=" -> x # y
               [] operator = "<" -> less
               [] operator = "<=" -> less \/ x = y
               [] operator = ">" -> ~less /\ x # y
               [] operator = ">=" -> ~less

\* one fragment of a WHERE clause on a row, vals being the values bound to
\* its placeholders
FragmentHolds(fragment, vals, row) ==
    IF fragment = <<"1 = 0">> THEN FALSE
    ELSE IF fragment[2] = "IN" THEN \E i \in 1..Len(vals) : Compare(row[fragment[1]], "=", vals[i])
    ELSE Compare(row[fragment[1]], fragment[2], vals[1])

RECURSIVE FragmentsHold(_, _, _)
\* the AND of the fragments, each taking its values from the front of vals
FragmentsHold(fragments, vals, row) ==
    IF fragments = <<>> THEN TRUE
    ELSE LET k == CountPlaceholders(Head(fragments))
         IN  /\ FragmentHolds(Head(fragments), SubSeq(vals, 1, k), row)
             /\ FragmentsHold(Tail(fragments), SubSeq(vals, k + 1, Len(vals)), row)

\* the rows of the table the WHERE clause of the statement keeps, vals
\* being the values bound to the placeholders of that clause
Matching(sql, vals, rows) ==
    LET fragments == SplitOn(ClauseBody(sql, "WHERE"), "AND")
    IN  SelectSeq(rows, LAMBDA row : FragmentsHold(fragments, vals, row))

RECURSIVE InsertOrdered(_, _, _, _)
\* row put into a list ordered by column: after the rows that do not sort
\* after it (ascending) or before it (descending)
InsertOrdered(row, sorted, column, direction) ==
    IF sorted = <<>> THEN <<row>>
    ELSE LET first == Head(sorted)
             \* NULL sorts before every value
             before == IF row[column].t = "null" THEN FALSE
                       ELSE first[column].t = "null" \/ Compare(first[column], "<", row[column])
             after == IF first[column].t = "null" THEN FALSE
                      ELSE row[column].t = "null" \/ Compare(row[column], "<", first[column])
         IN  IF (direction = "ASC" /\ after) \/ (direction = "DESC" /\ before)
             THEN <<row>> \o sorted
             ELSE <<first>> \o InsertOrdered(row, Tail(sorted), column, direction)

RECURSIVE OrderRows(_, _, _)
\* ORDER BY column direction: a stable sort
OrderRows(rows, column, direction) ==
    IF rows = <<>> THEN <<>>
    ELSE InsertOrdered(rows[Len(rows)], OrderRows(Front(rows), column, direction),
                       column, direction)

RECURSIVE DistinctKeys(_, _)
\* the values of column in rows, each once, in order of first appearance
DistinctKeys(rows, column) ==
    IF rows = <<>> THEN <<>>
    ELSE LET rest == DistinctKeys(Front(rows), column)
             key == rows[Len(rows)][column]
         IN  IF \E i \in 1..Len(rest) : rest[i] = key THEN rest ELSE Append(rest, key)

\* GROUP BY column: the groups of rows in ascending order of their key,
\* each group holding its rows in tRows order
GroupsOf(rows, column) ==
    LET keys == DistinctKeys(OrderRows(rows, column, "ASC"), column)
    IN  [ i \in 1..Len(keys) |-> SelectSeq(rows, LAMBDA row : row[column] = keys[i]) ]

\* the HAVING conditions of the model on a group
HavingHolds(condition, group) ==
    CASE condition = <<"COUNT(*) > 0">> -> Len(group) > 0
      [] condition = <<"COUNT(*) > 1">> -> Len(group) > 1

\* the values bound to the placeholders of a statement: a placeholder left
\* without a value is bound to NULL
Bound(sql, vals) ==
    vals \o [ i \in 1..(CountPlaceholders(sql) - Len(vals)) |-> Null ]

\* the statement is one the engine refuses: more values than placeholders,
\* OFFSET without LIMIT, HAVING on a statement that does not aggregate, or
\* an empty column list
EngineRefuses(sql, vals) ==
    \/ Len(vals) > CountPlaceholders(sql)
    \/ HasClause(sql, "OFFSET") /\ ~HasClause(sql, "LIMIT")
    \/ HasClause(sql, "HAVING") /\ ~HasClause(sql, "GROUP BY") /\ sql[2] # "COUNT(*) as count"
    \/ sql[1] = "SELECT" /\ sql[2] = "FROM"

\* the column list of a SELECT statement
SelectList(sql) ==
    LET from == IndexFrom(sql, {"FROM"}, 1)
    IN  SelectSeq(SubSeq(sql, 2, from - 1), LAMBDA token : token # ",")

\* a row cut down to the columns selected
Project(row, columns) ==
    IF columns = <<"*">> THEN row
    ELSE [ c \in { columns[i] : i \in 1..Len(columns) } |-> row[c] ]

\* LIMIT n OFFSET m on a list of rows
Slice(rows, sql) ==
    LET m == IF HasClause(sql, "OFFSET") THEN NumberOf(ClauseBody(sql, "OFFSET")[1]) ELSE 0
        n == IF HasClause(sql, "LIMIT") THEN NumberOf(ClauseBody(sql, "LIMIT")[1]) ELSE Len(rows)
        last == IF m + n < Len(rows) THEN m + n ELSE Len(rows)
    IN  SubSeq(rows, m + 1, last)

\* the row lists a SELECT statement can return on rows: the matching rows,
\* grouped (one row per group that passes HAVING; which row of the group
\* supplies the columns is the engine's choice), ordered, sliced and
\* projected
SelectResults(sql, vals, rows) ==
    LET matching == Matching(sql, Bound(sql, vals), rows)
        groups == IF HasClause(sql, "GROUP BY")
                  THEN SelectSeq(GroupsOf(matching, ClauseBody(sql, "GROUP BY")[1]),
                                 LAMBDA group :
                                     HasClause(sql, "HAVING") => HavingHolds(ClauseBody(sql, "HAVING"), group))
                  ELSE [ i \in 1..Len(matching) |-> <<matching[i]>> ]
        picks == { pick \in [ 1..Len(groups) -> 1..MaxRows ] :
                       \A i \in 1..Len(groups) : pick[i] <= Len(groups[i]) }
        order == ClauseBody(sql, "ORDER BY")
    IN  { LET picked == [ i \in 1..Len(groups) |-> groups[i][pick[i]] ]
              ordered == IF order = <<>> THEN picked ELSE OrderRows(picked, order[1], order[2])
              sliced == Slice(ordered, sql)
          IN  [ i \in 1..Len(sliced) |-> Project(sliced[i], SelectList(sql)) ]
          : pick \in picks }

\* the count a SELECT COUNT(*) statement without GROUP BY returns
CountResult(sql, vals, rows) == Len(Matching(sql, Bound(sql, vals), rows))

\* the rowid INSERT gives a new row: one above the largest
NextRowId(rows) ==
    IF rows = <<>> THEN 1
    ELSE 1 + (CHOOSE n \in { rows[i].id.n : i \in 1..Len(rows) } :
                  \A i \in 1..Len(rows) : rows[i].id.n <= n)

\* the text is the numeral of a number
IsNumeral(chars) == \E n \in 0..9 : ToString(n) = chars

\* the value the engine stores in the column for a bound value: id is an
\* INTEGER PRIMARY KEY and takes a numeral text as its number; v has no
\* declared type and keeps every value as it is
Stored(column, value) ==
    IF column = "id" /\ value.t = "string" /\ IsNumeral(value.s)
    THEN Num(NumberOf(value.s))
    ELSE value

\* INSERT INTO t (columns) VALUES (?, ...): the table with the new row
InsertResult(sql, vals, rows) ==
    LET lparen == IndexFrom(sql, {"("}, 1)
        rparen == IndexFrom(sql, {")"}, 1)
        columns == SelectSeq(SubSeq(sql, lparen + 1, rparen - 1), LAMBDA token : token # ",")
        given(c) == \E i \in 1..Len(columns) : columns[i] = c
        valueOf(c) == vals[CHOOSE i \in 1..Len(columns) : columns[i] = c]
    IN  Append(rows, [ id |-> IF given("id") /\ valueOf("id").t # "null"
                              THEN Stored("id", valueOf("id"))
                              ELSE Num(NextRowId(rows)),
                       v |-> IF given("v") THEN valueOf("v") ELSE Null ])

RECURSIVE Assign(_, _, _)
\* the assignments of a SET clause applied to a row, each taking its value
\* from the front of vals
Assign(assignments, vals, row) ==
    IF assignments = <<>> THEN row
    ELSE Assign(Tail(assignments), Tail(vals),
                [row EXCEPT ![Head(assignments)[1]] = Head(vals)])

\* UPDATE t SET ... [WHERE ...]: the table after the statement and the
\* number of rows it changed
UpdateResult(sql, vals, rows) ==
    LET assignments == SplitOn(ClauseBody(sql, "SET"), ",")
        n == Len(assignments)
        bound == Bound(sql, vals)
        whereVals == SubSeq(bound, n + 1, Len(bound))
        hit(row) == FragmentsHold(SplitOn(ClauseBody(sql, "WHERE"), "AND"), whereVals, row)
    IN  [ rows |-> [ i \in 1..Len(rows) |->
                       IF hit(rows[i]) THEN Assign(assignments, bound, rows[i]) ELSE rows[i] ],
          changes |-> Len(SelectSeq(rows, hit)) ]

\* DELETE FROM t [WHERE ...]: the table after the statement and the number
\* of rows it removed
DeleteResult(sql, vals, rows) ==
    LET bound == Bound(sql, vals)
        hit(row) == FragmentsHold(SplitOn(ClauseBody(sql, "WHERE"), "AND"), bound, row)
    IN  [ rows |-> SelectSeq(rows, LAMBDA row : ~hit(row)),
          changes |-> Len(SelectSeq(rows, hit)) ]

\* ---- the builder a facade call creates ----

\* new QueryBuilder(tableName): the fields of a fresh builder
NewBuilder ==
    [ whereConditions |-> <<>>, whereValues |-> <<>>, havingClause |-> <<>>,
      groupByClause |-> <<>>, orderByClause |-> <<>>, limitClause |-> <<>>,
      offsetClause |-> <<>>, selectColumns |-> <<"*">>, distinctFlag |-> FALSE,
      joins |-> <<>> ]

\* the fields of builder b after select(columns)
selectOn(b, columns) == [b EXCEPT !.selectColumns = columns]

\* the fields of builder b after where(column, operator, value)
whereOn(b, column, operator, value) ==
    [b EXCEPT !.whereConditions = Append(@, <<column, operator, "?">>),
              !.whereValues = Append(@, value)]

\* the fields of builder b after whereIn(column, values)
whereInOn(b, column, values) ==
    IF Len(values) = 0
    THEN [b EXCEPT !.whereConditions = Append(@, <<"1 = 0">>)]
    ELSE [b EXCEPT !.whereConditions =
                       Append(@, <<column, "IN", "(">>
                                 \o JoinWith(Placeholders(values), <<",">>) \o <<")">>),
                   !.whereValues = @ \o values]

\* toCountSQL() on a builder whose fields are b
toCountSQLOf(b) ==
    [ sql |->
          <<"SELECT", "COUNT(*) as count", "FROM", tableName>>
          \o (IF Len(b.joins) > 0 THEN JoinWith(b.joins, <<>>) ELSE <<>>)
          \o (IF Len(b.whereConditions) > 0
              THEN <<"WHERE">> \o JoinWith(b.whereConditions, <<"AND">>)
              ELSE <<>>)
          \o b.groupByClause
          \o b.havingClause,
      values |-> b.whereValues ]

\* ---- conditions and options ----

\* one entry of a conditions or data object
Entry(key, value) == [ key |-> key, value |-> value ]

\* the elements of an array value as values
Elements(value) == [ i \in 1..Len(value.items) |-> Num(value.items[i]) ]

\* an options object: has holds the names of the options supplied
NoOptions ==
    [ has |-> {}, columns |-> <<>>, orderBy |-> "", direction |-> "", groupBy |-> "",
      having |-> <<>>, limit |-> 0, offset |-> 0 ]

\* { ...options, name: value }
With(options, name, value) == [options EXCEPT ![name] = value, !.has = @ \cup {name}]

\* if (options.name) for a text or a number: supplied, and not '' or 0
Truthy(options, name) ==
    /\ name \in options.has
    /\ IF name \in {"limit", "offset"} THEN options[name] # 0
       ELSE IF name = "columns" THEN TRUE
       ELSE IF name = "having" THEN options[name] # <<>>
       ELSE options[name] # ""

\* faulty variant: an operator object is bound as an equality value
ConditionOn_EqualityOnly(b, entry) ==
    IF IsArray(entry.value)
    THEN whereInOn(b, entry.key, Elements(entry.value))
    ELSE whereOn(b, entry.key, "=", entry.value)

\* the body of the loop over Object.entries(conditions) in find and count
ConditionOn(b, entry) ==
    IF IsArray(entry.value)
    THEN whereInOn(b, entry.key, Elements(entry.value))
    ELSE IF HasOperator(entry.value)
    THEN whereOn(b, entry.key, entry.value.s, Num(entry.value.n))
    ELSE whereOn(b, entry.key, "=", entry.value)

RECURSIVE ConditionsOn(_, _)
\* the loop over Object.entries(conditions), in entry order
ConditionsOn(b, conditions) ==
    IF conditions = <<>> THEN b
    ELSE ConditionsOn(ConditionOn(b, Head(conditions)), Tail(conditions))

\* the limit and offset steps of find
LimitOn(b, options) ==
    IF Truthy(options, "limit")
    THEN LET limited == limitOn(b, ToString(options.limit))
         IN  IF Truthy(options, "offset")
             THEN offsetOn(limited, ToString(options.offset))
             ELSE limited
    ELSE b

\* the builder find() has when it calls toSQL()
FindBuilder(conditions, options) ==
    LET selected == IF Truthy(options, "columns")
                    THEN selectOn(NewBuilder, options.columns)
                    ELSE NewBuilder
        filtered == ConditionsOn(selected, conditions)
        ordered == IF Truthy(options, "orderBy")
                   THEN orderByOn(filtered, options.orderBy,
                                  IF "direction" \in options.has THEN options.direction ELSE "ASC")
                   ELSE filtered
        limited == LimitOn(ordered, options)
        grouped == IF Truthy(options, "groupBy")
                   THEN groupByOn(limited, options.groupBy)
                   ELSE limited
    IN  IF Truthy(options, "having")
        THEN havingOn(grouped, options.having, <<>>)
        ELSE grouped

\* the statement find() executes
FindStatement(conditions, options) == toSQLOf(FindBuilder(conditions, options))

\* faulty variant: only the first condition entry reaches the statement
CountStatement_FirstEntryOnly(conditions) ==
    toCountSQLOf(ConditionsOn(NewBuilder,
                              IF Len(conditions) > 1 THEN <<conditions[1]>> ELSE conditions))

\* the statement count() executes
CountStatement(conditions) == toCountSQLOf(ConditionsOn(NewBuilder, conditions))

\* faulty variant: with no condition the statement is made to match no row
WhereClause_NoneWhenEmpty(conditions) ==
    IF Len(conditions) > 0
    THEN <<"WHERE">> \o JoinWith([ i \in 1..Len(conditions) |-> <<conditions[i].key, "=", "?">> ],
                                 <<"AND">>)
    ELSE <<"WHERE", "1 = 0">>

\* conditionKeys.map(key => `${key} = ?`).join(' AND ') after WHERE, nothing
\* when there is no key
WhereClause(conditions) ==
    IF Len(conditions) > 0
    THEN <<"WHERE">> \o JoinWith([ i \in 1..Len(conditions) |-> <<conditions[i].key, "=", "?">> ],
                                 <<"AND">>)
    ELSE <<>>

\* Object.values(object).map(this._prepareValue)
PreparedValues(entries) == [ i \in 1..Len(entries) |-> prepareValue(entries[i].value) ]

\* faulty variant: the condition values are bound before the patch values
UpdateStatement_ConditionsFirst(data, conditions) ==
    [ sql |-> <<"UPDATE", tableName, "SET">>
              \o JoinWith([ i \in 1..Len(data) |-> <<data[i].key, "=", "?">> ], <<",">>)
              \o WhereClause(conditions),
      values |-> PreparedValues(conditions) \o PreparedValues(data) ]

\* the statement update() executes
UpdateStatement(data, conditions) ==
    [ sql |-> <<"UPDATE", tableName, "SET">>
              \o JoinWith([ i \in 1..Len(data) |-> <<data[i].key, "=", "?">> ], <<",">>)
              \o WhereClause(conditions),
      values |-> PreparedValues(data)
                 \o (IF Len(conditions) > 0 THEN PreparedValues(conditions) ELSE <<>>) ]

\* the statement delete() executes
DeleteStatement(conditions) ==
    [ sql |-> <<"DELETE FROM", tableName>> \o WhereClause(conditions),
      values |-> PreparedValues(conditions) ]

\* faulty variant: the values are bound in the reverse of the column order
InsertStatement_ValuesReversed(data) ==
    [ sql |-> <<"INSERT INTO", tableName, "(">>
              \o JoinWith([ i \in 1..Len(data) |-> <<data[i].key>> ], <<",">>)
              \o <<")", "VALUES", "(">>
              \o JoinWith([ i \in 1..Len(data) |-> <<"?">> ], <<",">>)
              \o <<")">>,
      values |-> [ i \in 1..Len(data) |-> PreparedValues(data)[Len(data) + 1 - i] ] ]

\* the statement insert() executes
InsertStatement(data) ==
    [ sql |-> <<"INSERT INTO", tableName, "(">>
              \o JoinWith([ i \in 1..Len(data) |-> <<data[i].key>> ], <<",">>)
              \o <<")", "VALUES", "(">>
              \o JoinWith([ i \in 1..Len(data) |-> <<"?">> ], <<",">>)
              \o <<")">>,
      values |-> PreparedValues(data) ]

\* ---- the calls ----

\* pagination: { page, limit }
NoPagination == [ page |-> 0, limit |-> 0 ]

\* a call and its arguments
Call(name, conditions, options, pagination, data) ==
    [ name |-> name, conditions |-> conditions, options |-> options,
      pagination |-> pagination, data |-> data ]

\* the null a call returns in place of a row
NoRow == Null

\* no insert returned just before the call
NoInsert == [ data |-> <<>>, lastID |-> 0 ]

QueryInit ==
    /\ tRows = <<>>
    /\ qOp = Call("none", <<>>, NoOptions, NoPagination, <<>>)
    /\ executed = <<>>
    /\ qOutcome = Returned("none")
    /\ qPre = <<>>
    /\ qPc = "idle"
    /\ total = 0
    /\ interleaved = FALSE
    /\ inserted = NoInsert

\* a query call starts
QStart(call) ==
    /\ qPc = "idle"
    /\ qOp' = call
    /\ qPre' = tRows
    /\ interleaved' = FALSE
    /\ inserted' = IF call.name = "findOne" /\ qOp.name = "insert" /\ qOutcome.status = "returned"
                   THEN [ data |-> qOp.data, lastID |-> qOutcome.value.lastID ]
                   ELSE NoInsert
    /\ UNCHANGED <<qbVars, callerVars, facadeVars, adminVars, tbVars>>

\* the ways a call that executes statement on the table can end, and the
\* statements it has executed then
Run(statement, possible) ==
    IF NotConnected
    THEN { [ executed |-> <<>>, outcome |-> Threw("NotConnected") ] }
    ELSE IF EngineRefuses(statement.sql, statement.values)
    THEN { [ executed |-> <<statement>>, outcome |-> Threw("EngineError") ] }
    ELSE { [ executed |-> <<statement>>, outcome |-> Returned(result) ] : result \in possible }

\* the ways find(tableName, conditions, options) can end
FindOutcomes(conditions, options) ==
    LET statement == FindStatement(conditions, options)
    IN  Run(statement, SelectResults(statement.sql, statement.values, tRows))

\* the ways count(tableName, conditions) can end
CountOutcomes(conditions) ==
    LET statement == CountStatement(conditions)
    IN  Run(statement, { CountResult(statement.sql, statement.values, tRows) })

findCall(conditions, options) ==
    /\ QStart(Call("find", conditions, options, NoPagination, <<>>))
    /\ \E end \in FindOutcomes(conditions, options) :
         /\ executed' = end.executed
         /\ qOutcome' = end.outcome
    /\ total' = 0
    /\ UNCHANGED <<tRows, qPc>>

\* faulty variant: the caller's limit wins over the forced one
findOneCall_CallerLimit(conditions, options) ==
    /\ QStart(Call("findOne", conditions, options, NoPagination, <<>>))
    /\ \E end \in FindOutcomes(conditions,
                               IF "limit" \in options.has THEN options
                               ELSE With(options, "limit", 1)) :
         /\ executed' = end.executed
         /\ qOutcome' = IF end.outcome.status = "threw" THEN end.outcome
                        ELSE IF Len(end.outcome.value) > 0
                        THEN Returned(end.outcome.value[1])
                        ELSE Returned(NoRow)
    /\ total' = 0
    /\ UNCHANGED <<tRows, qPc>>

\* find with { ...options, limit: 1 }, then results[0] || null
findOneCall(conditions, options) ==
    /\ QStart(Call("findOne", conditions, options, NoPagination, <<>>))
    /\ \E end \in FindOutcomes(conditions, With(options, "limit", 1)) :
         /\ executed' = end.executed
         /\ qOutcome' = IF end.outcome.status = "threw" THEN end.outcome
                        ELSE IF Len(end.outcome.value) > 0
                        THEN Returned(end.outcome.value[1])
                        ELSE Returned(NoRow)
    /\ total' = 0
    /\ UNCHANGED <<tRows, qPc>>

countCall(conditions) ==
    /\ QStart(Call("count", conditions, NoOptions, NoPagination, <<>>))
    /\ \E end \in CountOutcomes(conditions) :
         /\ executed' = end.executed
         /\ qOutcome' = end.outcome
    /\ total' = 0
    /\ UNCHANGED <<tRows, qPc>>

\* two rows of the list carry the same id: the statement that would leave
\* the table so violates the primary key and changes nothing
DuplicateIds(rows) ==
    \E i, j \in 1..Len(rows) : i # j /\ rows[i].id = rows[j].id

\* a row of the list has an id that is no number: the engine refuses the
\* statement with a datatype mismatch
MismatchedIds(rows) ==
    \E i \in 1..Len(rows) : rows[i].id.t # "number"

\* the first value of the entries on which _prepareValue raises
FirstRaising(entries) ==
    entries[CHOOSE i \in 1..Len(entries) :
                /\ PrepareRaises(entries[i].value)
                /\ \A j \in 1..(i - 1) : ~PrepareRaises(entries[j].value)].value

\* _prepareValue raises on a value of the entries
SomeRaises(entries) == \E i \in 1..Len(entries) : PrepareRaises(entries[i].value)

insertCall(data) ==
    /\ QStart(Call("insert", <<>>, NoOptions, NoPagination, data))
    /\ Len(tRows) < MaxRows
    /\ IF ~NotConnected /\ SomeRaises(data)
       THEN /\ executed' = <<>>
            /\ qOutcome' = Threw(PrepareError(FirstRaising(data)))
            /\ tRows' = tRows
       ELSE LET statement == InsertStatement(data)
                after == InsertResult(statement.sql, statement.values, tRows)
            IN  IF ~NotConnected /\ (DuplicateIds(after) \/ MismatchedIds(after))
                THEN /\ executed' = <<statement>>
                     /\ qOutcome' = Threw("EngineError")
                     /\ tRows' = tRows
                ELSE \E end \in Run(statement, { [ lastID |-> after[Len(after)].id.n,
                                                    changes |-> 1 ] }) :
                       /\ executed' = end.executed
                       /\ qOutcome' = end.outcome
                       /\ tRows' = IF end.outcome.status = "returned" THEN after ELSE tRows
    /\ total' = 0
    /\ UNCHANGED qPc

updateCall(data, conditions) ==
    /\ QStart(Call("update", conditions, NoOptions, NoPagination, data))
    /\ LET statement == UpdateStatement(data, conditions)
           result == UpdateResult(statement.sql, statement.values, tRows)
       IN  IF ~NotConnected /\ SomeRaises(data \o conditions)
           THEN /\ executed' = <<>>
                /\ qOutcome' = Threw(PrepareError(FirstRaising(data \o conditions)))
                /\ tRows' = tRows
           ELSE IF ~NotConnected /\ DuplicateIds(result.rows)
           THEN /\ executed' = <<statement>>
                /\ qOutcome' = Threw("EngineError")
                /\ tRows' = tRows
           ELSE \E end \in Run(statement, { [ changes |-> result.changes ] }) :
                  /\ executed' = end.executed
                  /\ qOutcome' = end.outcome
                  /\ tRows' = IF end.outcome.status = "returned" THEN result.rows ELSE tRows
    /\ total' = 0
    /\ UNCHANGED qPc

deleteCall(conditions) ==
    /\ QStart(Call("delete", conditions, NoOptions, NoPagination, <<>>))
    /\ LET statement == DeleteStatement(conditions)
           result == DeleteResult(statement.sql, statement.values, tRows)
       IN  \E end \in Run(statement, { [ changes |-> result.changes ] }) :
             /\ executed' = end.executed
             /\ qOutcome' = end.outcome
             /\ tRows' = IF end.outcome.status = "returned" THEN result.rows ELSE tRows
    /\ total' = 0
    /\ UNCHANGED qPc

\* Math.ceil(a / b) for b > 0
Ceil(a, b) == (a + b - 1) \div b

\* faulty variant: the total counts every row of the table
findPaginatedCall_CountsAll(conditions, pagination, options) ==
    /\ QStart(Call("findPaginated", conditions, options, pagination, <<>>))
    /\ \E end \in CountOutcomes(<<>>) :
         /\ executed' = end.executed
         /\ IF end.outcome.status = "threw"
            THEN /\ qOutcome' = end.outcome
                 /\ qPc' = "idle"
                 /\ total' = 0
            ELSE /\ qOutcome' = [ status |-> "pending", value |-> "none" ]
                 /\ qPc' = "page"
                 /\ total' = end.outcome.value
    /\ UNCHANGED tRows

\* findPaginated up to the end of its count() call
findPaginatedCall(conditions, pagination, options) ==
    /\ QStart(Call("findPaginated", conditions, options, pagination, <<>>))
    /\ \E end \in CountOutcomes(conditions) :
         /\ executed' = end.executed
         /\ IF end.outcome.status = "threw"
            THEN /\ qOutcome' = end.outcome
                 /\ qPc' = "idle"
                 /\ total' = 0
            ELSE /\ qOutcome' = [ status |-> "pending", value |-> "none" ]
                 /\ qPc' = "page"
                 /\ total' = end.outcome.value
    /\ UNCHANGED tRows

\* findPaginated from the end of count(): the find() call and the summary
PaginatedFind ==
    /\ qPc = "page"
    /\ LET page == qOp.pagination.page
           perPage == qOp.pagination.limit
           totalPages == Ceil(total, perPage)
       IN  \E end \in FindOutcomes(qOp.conditions,
                                   With(With(qOp.options, "limit", perPage),
                                        "offset", (page - 1) * perPage)) :
             /\ executed' = executed \o end.executed
             /\ qOutcome' = IF end.outcome.status = "threw" THEN end.outcome
                            ELSE Returned([ data |-> end.outcome.value,
                                            page |-> page, limit |-> perPage, total |-> total,
                                            totalPages |-> totalPages,
                                            hasNext |-> page < totalPages,
                                            hasPrev |-> page > 1 ])
    /\ qPc' = "idle"
    /\ total' = 0
    /\ UNCHANGED <<tRows, qOp, qPre, interleaved, inserted>>
    /\ UNCHANGED <<qbVars, callerVars, facadeVars, adminVars, tbVars>>

\* another caller's insert runs while findPaginated awaits
OtherInsert(value) ==
    /\ qPc = "page"
    /\ ~interleaved
    /\ Len(tRows) < MaxRows
    /\ tRows' = Append(tRows, [ id |-> Num(NextRowId(tRows)), v |-> value ])
    /\ interleaved' = TRUE
    /\ UNCHANGED <<qOp, executed, qOutcome, qPre, qPc, total, inserted>>
    /\ UNCHANGED <<qbVars, callerVars, facadeVars, adminVars, tbVars>>

\* another caller's delete of every row runs while findPaginated awaits
OtherDelete ==
    /\ qPc = "page"
    /\ ~interleaved
    /\ tRows # <<>>
    /\ tRows' = <<>>
    /\ interleaved' = TRUE
    /\ UNCHANGED <<qOp, executed, qOutcome, qPre, qPc, total, inserted>>
    /\ UNCHANGED <<qbVars, callerVars, facadeVars, adminVars, tbVars>>

\* the conditions objects a caller passes to find and count
Conditions ==
    { <<>>,
      <<Entry("v", Num(1))>>,
      <<Entry("v", Null)>>,
      <<Entry("v", Arr(<<1, 2>>))>>,
      <<Entry("v", Arr(<<>>))>>,
      <<Entry("v", Obj(">", 1))>>,
      <<Entry("id", Arr(<<1>>)), Entry("v", Obj("<=", 1))>> }

\* the conditions objects a caller passes with options or a page
FewConditions == { <<>>, <<Entry("v", Num(1))>> }

\* the conditions objects a caller passes to update and delete
WriteConditions ==
    { <<>>,
      <<Entry("id", Num(2))>>,
      <<Entry("v", Arr(<<1, 2>>))>>,
      <<Entry("v", Obj(">", 1)), Entry("id", Num(1))>> }

\* the options objects a caller passes to find
FindOptions ==
    { NoOptions,
      With(NoOptions, "columns", <<"id">>),
      With(NoOptions, "orderBy", "v"),
      With(With(NoOptions, "orderBy", "v"), "direction", "DESC"),
      With(NoOptions, "groupBy", "v"),
      With(With(NoOptions, "groupBy", "v"), "having", <<"COUNT(*) > 1">>),
      With(NoOptions, "limit", 0),
      With(NoOptions, "limit", 2),
      With(With(NoOptions, "limit", 1), "offset", 1),
      With(NoOptions, "offset", 1) }

\* the options objects a caller passes to findOne
FindOneOptions ==
    { NoOptions,
      With(With(NoOptions, "orderBy", "v"), "direction", "DESC"),
      With(NoOptions, "limit", 2),
      With(NoOptions, "offset", 1),
      With(NoOptions, "columns", <<"id">>),
      With(With(NoOptions, "groupBy", "v"), "having", <<"COUNT(*) > 1">>) }

\* the options objects a caller passes to findPaginated
PageOptions ==
    { NoOptions,
      With(With(NoOptions, "orderBy", "v"), "direction", "DESC"),
      With(NoOptions, "groupBy", "v"),
      With(With(NoOptions, "limit", 1), "offset", 1) }

\* the arguments of the find calls made: every conditions object without
\* options, and every options object with few conditions
FindArguments == (Conditions \X {NoOptions}) \cup (FewConditions \X FindOptions)

\* the column values a caller writes
CellValues == { Num(1), Num(2), Null }

\* the records a caller inserts whose values need preparation, and two
\* that name the id
Records ==
    { <<Entry("v", value)>> :
          value \in { Undefined, Bool(TRUE), Bool(FALSE), DateAt(1), InvalidDate,
                      Obj(">", 1), Cyclic, Str("a") } }
    \cup { <<Entry("id", Str("2")), Entry("v", Bool(TRUE))>>,
           <<Entry("v", Num(2)), Entry("id", Num(1))>> }

\* the patches a caller passes to update whose values need preparation
RecordPatches ==
    { <<Entry("v", Bool(FALSE))>>, <<Entry("v", InvalidDate)>>,
      <<Entry("v", Arr(<<1, 2>>)), Entry("id", Num(1))>> }

\* the patches a caller passes to update
Patches ==
    { <<Entry("v", value)>> : value \in CellValues }
    \cup { <<Entry("v", Num(2)), Entry("id", Num(1))>> }

QueryNext ==
    \/ \E value \in CellValues : insertCall(<<Entry("v", value)>>)
    \/ \E arguments \in FindArguments : findCall(arguments[1], arguments[2])
    \/ \E conditions \in FewConditions \cup { <<Entry("v", Null)>> } :
         \E options \in FindOneOptions : findOneCall(conditions, options)
    \/ \E conditions \in Conditions : countCall(conditions)
    \/ \E data \in Patches : \E conditions \in WriteConditions : updateCall(data, conditions)
    \/ \E conditions \in WriteConditions : deleteCall(conditions)
    \/ \E conditions \in FewConditions : \E page \in 1..3 : \E perPage \in 1..2 :
         \E options \in PageOptions :
           findPaginatedCall(conditions, [ page |-> page, limit |-> perPage ], options)
    \/ PaginatedFind
    \/ OtherInsert(Num(1))
    \/ OtherDelete

AdminInit ==
    /\ cbKind = "user"
    /\ migrations = <<>>
    /\ supplied = <<>>
    /\ rbCount = 0
    /\ results = <<>>
    /\ todo = <<>>
    /\ appliedVersions = {}
    /\ upLog = <<>>
    /\ downLog = <<>>
    /\ failed = 0
    /\ repeated = FALSE

\* ---- overlapping connect() calls ----

\* the callers of the facade
Callers == {1, 2}

CallersInit ==
    /\ connPc = [ c \in Callers |-> "idle" ]
    /\ connOutcome = [ c \in Callers |-> Returned("none") ]
    /\ connCalls = [ c \in Callers |-> 0 ]
    /\ overlapped = FALSE

\* caller c calls connect(): it returns at once when the flag is set,
\* otherwise it calls open() and awaits it
ConnectCalled(c) ==
    /\ connPc[c] = "idle"
    /\ connCalls[c] < MaxConnects
    /\ isConnected \/ nextHandle + Cardinality({ d \in Callers : connPc[d] = "open" }) <= MaxHandles
    /\ connCalls' = [connCalls EXCEPT ![c] = @ + 1]
    /\ IF isConnected
       THEN /\ connOutcome' = [connOutcome EXCEPT ![c] = Returned("void")]
            /\ UNCHANGED <<connPc, overlapped>>
       ELSE /\ connPc' = [connPc EXCEPT ![c] = "open"]
            /\ connOutcome' = [connOutcome EXCEPT ![c] = [ status |-> "pending", value |-> "none" ]]
            /\ overlapped' = (overlapped \/ (/\ nextHandle = 1
                                              /\ \E d \in Callers \ {c} : connPc[d] = "open"))
    /\ UNCHANGED <<qbVars, facadeVars, adminVars, tbVars, queryVars>>

\* caller c's await of open() resumes: this._db = the new handle
OpenResumed(c) ==
    /\ connPc[c] = "open"
    /\ \E ok \in BOOLEAN :
         IF ok
         THEN /\ db' = nextHandle
              /\ openHandles' = openHandles \cup {nextHandle}
              /\ nextHandle' = nextHandle + 1
              /\ IF timeout # 0
                 THEN /\ connPc' = [connPc EXCEPT ![c] = "pragma"]
                      /\ UNCHANGED <<isConnected, connOutcome>>
                 ELSE /\ isConnected' = TRUE
                      /\ connPc' = [connPc EXCEPT ![c] = "idle"]
                      /\ connOutcome' = [connOutcome EXCEPT ![c] = Returned("void")]
         ELSE /\ connPc' = [connPc EXCEPT ![c] = "idle"]
              /\ connOutcome' = [connOutcome EXCEPT ![c] = Threw("OpenError")]
              /\ UNCHANGED <<db, isConnected, openHandles, nextHandle>>
    /\ UNCHANGED <<connCalls, overlapped>>
    /\ UNCHANGED <<inTx, disk, conn, pc, op, outcome, cmds, pre, caught, cbOps, cbStatus,
                   cbValue, nestVars>>
    /\ UNCHANGED <<qbVars, adminVars, tbVars, queryVars>>

\* caller c's await of exec(PRAGMA busy_timeout) on this._db resumes
PragmaResumed(c) ==
    /\ connPc[c] = "pragma"
    /\ \E ok \in BOOLEAN :
         IF ok
         THEN /\ isConnected' = TRUE
              /\ connOutcome' = [connOutcome EXCEPT ![c] = Returned("void")]
         ELSE /\ isConnected' = isConnected
              /\ connOutcome' = [connOutcome EXCEPT ![c] = Threw("PragmaError")]
    /\ connPc' = [connPc EXCEPT ![c] = "idle"]
    /\ UNCHANGED <<connCalls, overlapped>>
    /\ UNCHANGED <<db, openHandles, nextHandle, inTx, disk, conn, pc, op, outcome, cmds, pre,
                   caught, cbOps, cbStatus, cbValue, nestVars>>
    /\ UNCHANGED <<qbVars, adminVars, tbVars, queryVars>>

CallersNext ==
    \E c \in Callers : ConnectCalled(c) \/ OpenResumed(c) \/ PragmaResumed(c)

Init == QBInit /\ FacadeInit /\ AdminInit /\ TBInit /\ QueryInit /\ CallersInit

\* the facade under one caller making calls one after the other
Next ==
    \/ connect
    \/ ConnectOpen
    \/ ConnectPragma
    \/ close
    \/ CloseDone
    \/ createTable
    \/ dropTable
    \/ tableExists
    \/ insert
    \/ find
    \/ update
    \/ delete
    \/ count
    \/ transaction
    \/ TxBegin
    \/ CbInsert
    \/ CbReturn
    \/ CbThrow
    \/ CbTransaction
    \/ InnerBegin
    \/ InnerCbReturn
    \/ InnerCbThrow
    \/ InnerCommit
    \/ InnerRollback
    \/ TxCommit
    \/ TxRollback

Spec == Init /\ [][Next]_vars

\* ------------------------------------------------------------------------
\* SQLiteAdmin: runMigrations / rollbackMigrations
\* ------------------------------------------------------------------------

\* largest count argument given to rollbackMigrations
MaxCount == 2

\* longest migration list supplied to a call
MaxList == 2

\* the migration lists a caller can supply: any order, no migration twice
\* (two migrations may carry the same version), at most n long
RECURSIVE ListsOver(_, _)
ListsOver(S, n) ==
    IF n = 0 THEN { <<>> }
    ELSE { <<>> } \cup UNION { { <<m>> \o l : l \in ListsOver(S \ {m}, n - 1) } : m \in S }

MigrationLists == ListsOver(Migs, MaxList)

RECURSIVE InsertByVersion(_, _)
\* m placed after every element whose version is not larger (keeps a sort stable)
InsertByVersion(m, sorted) ==
    IF sorted = <<>> THEN <<m>>
    ELSE IF VersionOf(Head(sorted)) <= VersionOf(m)
         THEN <<Head(sorted)>> \o InsertByVersion(m, Tail(sorted))
         ELSE <<m>> \o sorted

\* faulty variant: the supplied list is used in the order given
SortByVersion_Unsorted(list) == list

RECURSIVE SortByVersion(_)
\* migrations.sort((a, b) => a.version - b.version)
SortByVersion(list) ==
    IF list = <<>> THEN <<>>
    ELSE InsertByVersion(list[Len(list)], SortByVersion(Front(list)))

RECURSIVE InsertDesc(_, _)
InsertDesc(v, sorted) ==
    IF sorted = <<>> THEN <<v>>
    ELSE IF Head(sorted) >= v
         THEN <<Head(sorted)>> \o InsertDesc(v, Tail(sorted))
         ELSE <<v>> \o sorted

RECURSIVE OrderByVersionDesc(_)
\* ORDER BY version DESC over the tracking rows
OrderByVersionDesc(rows) ==
    IF rows = <<>> THEN <<>>
    ELSE InsertDesc(rows[Len(rows)], OrderByVersionDesc(Front(rows)))

\* find(): the LIMIT clause is added only for a truthy options.limit
LimitRows(rows, limitOption) ==
    IF limitOption # 0
    THEN SubSeq(rows, 1, IF limitOption < Len(rows) THEN limitOption ELSE Len(rows))
    ELSE rows

\* faulty variant: the applied versions are not consulted
IsApplied_Never(m) == FALSE

\* appliedVersions.has(migration.version)
IsApplied(m) == VersionOf(m) \in appliedVersions

\* migrations.find(m => m.version === version): the first match, 0 for undefined
FindMigration(list, version) ==
    IF \E i \in 1..Len(list) : VersionOf(list[i]) = version
    THEN list[CHOOSE i \in 1..Len(list) :
                 /\ VersionOf(list[i]) = version
                 /\ \A j \in 1..(i - 1) : VersionOf(list[j]) # version]
    ELSE 0

\* the entries pushed onto the results list
Applied(version) == [ version |-> version, applied |-> TRUE, error |-> "none" ]

RolledBack(version) == [ version |-> version, applied |-> FALSE, error |-> "none" ]

Failure(version, error) == [ version |-> version, applied |-> FALSE, error |-> error ]

\* the elements of a sequence
Range(seq) == { seq[i] : i \in 1..Len(seq) }

\* the facade is connected when the admin calls are made
AdminFacadeInit ==
    /\ db = 1
    /\ isConnected = TRUE
    /\ openHandles = {1}
    /\ nextHandle = 2
    /\ inTx = FALSE
    /\ disk = EmptyContent
    /\ conn = EmptyContent
    /\ pc = "idle"
    /\ op = "none"
    /\ outcome = Returned("none")
    /\ cmds = <<>>
    /\ pre = [ db |-> 1, isConnected |-> TRUE, openHandles |-> {1},
               disk |-> EmptyContent, conn |-> EmptyContent, inTx |-> FALSE ]
    /\ caught = "none"
    /\ cbOps = 0
    /\ cbStatus = "none"
    /\ cbValue = "none"
    /\ nested = 0
    /\ innerCmds = <<>>
    /\ innerOutcome = Returned("none")
    /\ innerCaught = "none"

runMigrations(list) ==
    /\ StartCall("runMigrations")
    /\ EnterTransaction
    /\ cbKind' = "run"
    /\ results' = <<>>
    /\ migrations' = list
    /\ supplied' = list
    /\ repeated' = /\ op = "runMigrations"
                   /\ outcome.status = "returned"
                   /\ Range(migrations) = Range(list)
    /\ todo' = <<>>
    /\ appliedVersions' = {}
    /\ upLog' = <<>>
    /\ downLog' = <<>>
    /\ failed' = 0
    /\ UNCHANGED <<rbCount, qbVars, callerVars, tbVars, queryVars>>

\* a builder, as its column list and the position of its current column,
\* after a column method
ColumnAdded(b, name, type) ==
    [ columns |-> Append(b.columns, [ name |-> name, type |-> type, modifiers |-> <<>> ]),
      current |-> Len(b.columns) + 1 ]

\* the builder after a modifier method, a column being current
ModifierAdded(b, fragment) ==
    [ b EXCEPT !.columns[b.current].modifiers = Append(@, fragment) ]

\* the builder after date(name): the TEXT column, then default('CURRENT_TIMESTAMP')
DateAdded(b, name) ==
    ModifierAdded(ColumnAdded(b, name, <<"TEXT">>),
                  <<"DEFAULT">> \o escapeValue("CURRENT_TIMESTAMP"))

\* the builder after the callback of createMigrationsTable has run on it
MigrationsTable ==
    LET fresh == [ columns |-> <<>>, current |-> 0 ]
        b1 == ColumnAdded(fresh, "id", <<"INTEGER">>)
        b2 == ModifierAdded(b1, <<"PRIMARY KEY">>)
        b3 == ModifierAdded(b2, <<"AUTOINCREMENT">>)
        b4 == ColumnAdded(b3, "version", <<"INTEGER">>)
        b5 == ModifierAdded(b4, <<"NOT NULL">>)
        b6 == ColumnAdded(b5, "name", <<"TEXT">>)
        b7 == ModifierAdded(b6, <<"NOT NULL">>)
        b8 == DateAdded(b7, "applied_at")
    IN  ModifierAdded(b8, <<"DEFAULT">> \o escapeValue("CURRENT_TIMESTAMP"))

\* the column texts build() gives for a column list
ColumnTexts(columns) ==
    [ i \in 1..Len(columns) |->
        <<columns[i].name>> \o columns[i].type
        \o (IF Len(columns[i].modifiers) > 0 THEN JoinWith(columns[i].modifiers, <<>>) ELSE <<>>) ]

\* the callback of runMigrations up to its loop: createMigrationsTable
\* (the builder calls and build() of createTable, then the statement), the
\* find of the applied versions, the in-place sort of the supplied list
RunPrepare ==
    /\ pc = "callback"
    /\ cbKind = "run"
    /\ cmds' = cmds \o <<Cmd("CREATE TABLE", TRUE), Cmd("SELECT", TRUE)>>
    /\ WriteContent([conn EXCEPT !.migTable = TRUE])
    /\ appliedVersions' = Range(conn.mig)
    /\ migrations' = SortByVersion(migrations)
    /\ todo' = SortByVersion(migrations)
    /\ pc' = "loop"
    /\ tbColumns' = MigrationsTable.columns
    /\ tbCurrentColumn' = MigrationsTable.current
    /\ tbConstraints' = <<>>
    /\ tbHeld' = [ from |-> "build", columns |-> ColumnTexts(MigrationsTable.columns),
                   constraints |-> ReturnedList(<<>>) ]
    /\ UNCHANGED <<tbCalls, tbOutcome, tbSince>>
    /\ UNCHANGED <<db, isConnected, openHandles, nextHandle, inTx, op, outcome, pre,
                   caught, cbOps, cbStatus, cbValue>>
    /\ UNCHANGED <<cbKind, supplied, rbCount, results, upLog, downLog, failed, repeated, qbVars, callerVars, queryVars, nestVars>>

\* the loop meets a migration whose version was applied before the call
RunSkip ==
    /\ pc = "loop"
    /\ cbKind = "run"
    /\ todo # <<>>
    /\ IsApplied(Head(todo))
    /\ todo' = Tail(todo)
    /\ UNCHANGED <<facadeVars, qbVars, callerVars, tbVars, queryVars>>
    /\ UNCHANGED <<cbKind, migrations, supplied, rbCount, results, appliedVersions, upLog,
                   downLog, failed, repeated>>

\* the loop meets an unapplied migration: up runs (and may throw after its
\* effect), then the tracking row is inserted (the INSERT may fail, and may
\* fail with an error on which the engine rolls the transaction back)
RunApply ==
    /\ pc = "loop"
    /\ cbKind = "run"
    /\ todo # <<>>
    /\ ~IsApplied(Head(todo))
    /\ LET m == Head(todo)
           v == VersionOf(m)
           afterUp == [conn EXCEPT !.fx = conn.fx \cup {v}]
       IN  /\ upLog' = Append(upLog, m)
           /\ \E res \in {"ok", "upThrew", "insertFailed", "insertAborted"} :
                CASE res = "ok" ->
                       /\ WriteContent([afterUp EXCEPT !.mig = Append(conn.mig, v)])
                       /\ cmds' = Append(cmds, Cmd("INSERT", TRUE))
                       /\ results' = Append(results, Applied(v))
                       /\ todo' = Tail(todo)
                       /\ UNCHANGED <<inTx, pc, caught, cbStatus, cbValue, failed>>
                  [] res = "upThrew" ->
                       /\ WriteContent(afterUp)
                       /\ results' = Append(results, Failure(v, "UpError"))
                       /\ failed' = v
                       /\ caught' = "UpError"
                       /\ cbStatus' = "threw"
                       /\ cbValue' = "UpError"
                       /\ pc' = "rollback"
                       /\ UNCHANGED <<inTx, cmds, todo>>
                  [] res = "insertFailed" ->
                       /\ WriteContent(afterUp)
                       /\ cmds' = Append(cmds, Cmd("INSERT", FALSE))
                       /\ results' = Append(results, Failure(v, "EngineError"))
                       /\ failed' = v
                       /\ caught' = "EngineError"
                       /\ cbStatus' = "threw"
                       /\ cbValue' = "EngineError"
                       /\ pc' = "rollback"
                       /\ UNCHANGED <<inTx, todo>>
                  [] res = "insertAborted" ->
                       /\ conn' = disk
                       /\ disk' = disk
                       /\ inTx' = FALSE
                       /\ cmds' = Append(cmds, Cmd("INSERT", FALSE))
                       /\ results' = Append(results, Failure(v, "EngineError"))
                       /\ failed' = v
                       /\ caught' = "EngineError"
                       /\ cbStatus' = "threw"
                       /\ cbValue' = "EngineError"
                       /\ pc' = "rollback"
                       /\ UNCHANGED todo
    /\ UNCHANGED <<db, isConnected, openHandles, nextHandle, op, outcome, pre, cbOps>>
    /\ UNCHANGED <<cbKind, migrations, supplied, rbCount, appliedVersions, downLog, repeated, qbVars, callerVars, tbVars, queryVars, nestVars>>

\* the loop of either admin callback is over: the callback resolves
LoopFinish ==
    /\ pc = "loop"
    /\ todo = <<>>
    /\ cbStatus' = "returned"
    /\ pc' = "commit"
    /\ UNCHANGED <<db, isConnected, openHandles, nextHandle, inTx, disk, conn, op,
                   outcome, cmds, pre, caught, cbOps, cbValue>>
    /\ UNCHANGED <<adminVars, qbVars, callerVars, tbVars, queryVars, nestVars>>

rollbackMigrations(list, n) ==
    /\ StartCall("rollbackMigrations")
    /\ EnterTransaction
    /\ cbKind' = "rollback"
    /\ results' = <<>>
    /\ migrations' = list
    /\ supplied' = list
    /\ rbCount' = n
    /\ repeated' = FALSE
    /\ todo' = <<>>
    /\ appliedVersions' = {}
    /\ upLog' = <<>>
    /\ downLog' = <<>>
    /\ failed' = 0
    /\ UNCHANGED <<qbVars, callerVars, tbVars, queryVars>>

\* the callback of rollbackMigrations up to its loop: the find of the most
\* recent rows (ORDER BY version DESC, limit: count); without the tracking
\* table the find fails and the error escapes the callback
RbPrepare ==
    /\ pc = "callback"
    /\ cbKind = "rollback"
    /\ cmds' = Append(cmds, Cmd("SELECT", conn.migTable))
    /\ IF conn.migTable
       THEN /\ todo' = LimitRows(OrderByVersionDesc(conn.mig), rbCount)
            /\ pc' = "loop"
            /\ UNCHANGED <<caught, cbStatus, cbValue>>
       ELSE /\ caught' = "EngineError"
            /\ cbStatus' = "threw"
            /\ cbValue' = "EngineError"
            /\ pc' = "rollback"
            /\ todo' = todo
    /\ UNCHANGED <<db, isConnected, openHandles, nextHandle, inTx, disk, conn, op,
                   outcome, pre, cbOps>>
    /\ UNCHANGED <<cbKind, migrations, supplied, rbCount, results, appliedVersions, upLog,
                   downLog, failed, repeated, qbVars, callerVars, tbVars, queryVars, nestVars>>

\* the loop meets an applied version the supplied list does not hold
RbSkip ==
    /\ pc = "loop"
    /\ cbKind = "rollback"
    /\ todo # <<>>
    /\ FindMigration(migrations, Head(todo)) = 0
    /\ todo' = Tail(todo)
    /\ UNCHANGED <<facadeVars, qbVars, callerVars, tbVars, queryVars>>
    /\ UNCHANGED <<cbKind, migrations, supplied, rbCount, results, appliedVersions, upLog,
                   downLog, failed, repeated>>

\* the loop meets an applied version of the supplied list: down runs (and may
\* throw after undoing the effect), then DELETE ... WHERE version = ? removes
\* every tracking row of the version (and may fail)
RbUndo ==
    /\ pc = "loop"
    /\ cbKind = "rollback"
    /\ todo # <<>>
    /\ FindMigration(migrations, Head(todo)) # 0
    /\ LET v == Head(todo)
           afterDown == [conn EXCEPT !.fx = conn.fx \ {v}]
       IN  /\ downLog' = Append(downLog, v)
           /\ \E res \in {"ok", "downThrew", "deleteFailed"} :
                CASE res = "ok" ->
                       /\ WriteContent([afterDown EXCEPT
                                           !.mig = SelectSeq(conn.mig, LAMBDA x : x # v)])
                       /\ cmds' = Append(cmds, Cmd("DELETE", TRUE))
                       /\ results' = Append(results, RolledBack(v))
                       /\ todo' = Tail(todo)
                       /\ UNCHANGED <<pc, caught, cbStatus, cbValue, failed>>
                  [] res = "downThrew" ->
                       /\ WriteContent(afterDown)
                       /\ results' = Append(results, Failure(v, "DownError"))
                       /\ failed' = v
                       /\ caught' = "DownError"
                       /\ cbStatus' = "threw"
                       /\ cbValue' = "DownError"
                       /\ pc' = "rollback"
                       /\ UNCHANGED <<cmds, todo>>
                  [] res = "deleteFailed" ->
                       /\ WriteContent(afterDown)
                       /\ cmds' = Append(cmds, Cmd("DELETE", FALSE))
                       /\ results' = Append(results, Failure(v, "EngineError"))
                       /\ failed' = v
                       /\ caught' = "EngineError"
                       /\ cbStatus' = "threw"
                       /\ cbValue' = "EngineError"
                       /\ pc' = "rollback"
                       /\ UNCHANGED todo
    /\ UNCHANGED <<db, isConnected, openHandles, nextHandle, inTx, op, outcome, pre, cbOps>>
    /\ UNCHANGED <<cbKind, migrations, supplied, rbCount, appliedVersions, upLog, repeated, qbVars, callerVars, tbVars, queryVars, nestVars>>

AdminNext ==
    \/ \E list \in MigrationLists : runMigrations(list)
    \/ RunPrepare
    \/ RunSkip
    \/ RunApply
    \/ LoopFinish
    \/ \E list \in MigrationLists : \E n \in 0..MaxCount : rollbackMigrations(list, n)
    \/ RbPrepare
    \/ RbSkip
    \/ RbUndo
    \/ TxBegin
    \/ TxCommit
    \/ TxRollback

\* the admin layer on a connected facade, one call after the other
InitAdmin == QBInit /\ AdminFacadeInit /\ AdminInit /\ TBInit /\ QueryInit /\ CallersInit

SpecAdmin == InitAdmin /\ [][AdminNext]_vars

\* the builder alone: any sequence of at most MaxCalls calls
SpecQB == Init /\ [][QBNext]_vars

\* the TableBuilder alone: any sequence of at most MaxTBCalls calls
SpecTB == Init /\ [][TBNext]_vars

\* the query operations on a connected facade with table t created, one
\* caller making calls one after the other, other callers writing while
\* findPaginated awaits
InitQuery == QBInit /\ AdminFacadeInit /\ AdminInit /\ TBInit /\ QueryInit /\ CallersInit

SpecQuery == InitQuery /\ [][QueryNext]_vars

\* records whose values need preparation written and read back by id
RecordNext ==
    \/ \E data \in Records : insertCall(data)
    \/ \E data \in RecordPatches :
         \E conditions \in { <<>>, <<Entry("id", Num(1))>>, <<Entry("v", Bool(TRUE))>> } :
           updateCall(data, conditions)
    \/ \E n \in 1..(MaxRows + 1) : findOneCall(<<Entry("id", Num(n))>>, NoOptions)

SpecRecord == InitQuery /\ [][RecordNext]_vars

\* two callers calling connect() on one facade, their calls overlapping
SpecCallers == Init /\ [][CallersNext]_vars

\* ------------------------------------------------------------------------
\* C1
\* ------------------------------------------------------------------------

\* the values supplied for the placeholders, in the order the placeholders
\* appear in the rendered statement: WHERE fragments first, HAVING after them
SuppliedInRenderOrder == Flatten(suppliedWhere) \o suppliedHaving

\* C1: for any sequence of builder calls, toSQL() returns a values list whose
\* i-th element is the value supplied for the i-th placeholder of the rendered
\* sql, and whose length is the number of placeholders.
C1_ValuesMatchPlaceholders ==
    /\ Len(toSQL.values) = CountPlaceholders(toSQL.sql)
    /\ toSQL.values = SuppliedInRenderOrder

\* ------------------------------------------------------------------------
\* Observations on a completed call
\* ------------------------------------------------------------------------

\* the call op has completed
Done(name) == pc = "idle" /\ op = name

\* the call in progress (or last call) issued engine command name
Issued(name) == \E i \in 1..Len(cmds) : cmds[i].cmd = name

\* ... and the engine carried it out
Succeeded(name) == \E i \in 1..Len(cmds) : cmds[i].cmd = name /\ cmds[i].ok

\* ... and the engine refused it
Refused(name) == \E i \in 1..Len(cmds) : cmds[i].cmd = name /\ ~cmds[i].ok

\* the last engine command issued was name
LastIssued(name) == Len(cmds) > 0 /\ cmds[Len(cmds)].cmd = name

\* the database content is what it was when the call started
ContentRestored == conn = pre.conn /\ disk = pre.disk

\* a transaction(callback) call on a Connected facade has completed
TxDone == Done("transaction") /\ pre.isConnected /\ pre.db # NoHandle

\* ------------------------------------------------------------------------
\* C2
\* ------------------------------------------------------------------------

DataOperations ==
    { "createTable", "dropTable", "tableExists", "insert", "find", "update",
      "delete", "count", "transaction" }

\* C3: each data operation called while the facade is Disconnected fails with
\* the State error, issues no command to the engine and leaves the facade
\* state unchanged.
C3_DisconnectedFailsFast ==
    (pc = "idle" /\ op \in DataOperations /\ ~pre.isConnected) =>
        /\ outcome = Threw("NotConnected")
        /\ cmds = <<>>
        /\ Snapshot = pre

\* ------------------------------------------------------------------------
\* Observations on the migration calls
\* ------------------------------------------------------------------------

\* no element occurs twice
NoDuplicates(seq) == \A i, j \in 1..Len(seq) : seq[i] = seq[j] => i = j

\* the versions of a migration list, in list order
VersionsOf(list) == [i \in 1..Len(list) |-> VersionOf(list[i])]

StrictlyAscending(seq) == \A i \in 1..(Len(seq) - 1) : seq[i] < seq[i + 1]

StrictlyDescending(seq) == \A i \in 1..(Len(seq) - 1) : seq[i] > seq[i + 1]

\* how often x occurs in seq
Occurrences(seq, x) == Cardinality({i \in 1..Len(seq) : seq[i] = x})

\* the k largest elements of a set of numbers
Largest(S, k) == { v \in S : Cardinality({w \in S : w > v}) < k }

\* ------------------------------------------------------------------------
\* C4
\* ------------------------------------------------------------------------

\* C4: when an up procedure, or the insert recording it, fails during
\* runMigrations, then after the call no effect of an up procedure and no
\* tracking row of that call survives, and the result list the call produces
\* records the failure for the failing version.
C4_FailedRunRollsBackAndReports ==
    (Done("runMigrations") /\ failed # 0) =>
        /\ ContentRestored
        /\ outcome.status = "returned"
        /\ \E i \in 1..Len(outcome.value) :
              /\ outcome.value[i].version = failed
              /\ ~outcome.value[i].applied
              /\ outcome.value[i].error # "none"

\* the part of C4 the code keeps: the failed call leaves the content as it
\* was, and raises instead of returning its list
FailedRunRollsBack ==
    (Done("runMigrations") /\ failed # 0) =>
        /\ ContentRestored
        /\ outcome.status = "threw"

\* ------------------------------------------------------------------------
\* C5
\* ------------------------------------------------------------------------

\* C5: a runMigrations call that repeats a successful one with the same
\* migrations invokes no up procedure, adds no tracking row and returns an
\* empty list; a successful call runs the up procedure of each supplied
\* migration whose version was unapplied exactly once, and no other.
C5_SecondRunAppliesNothing ==
    /\ (op = "runMigrations" /\ repeated) =>
          /\ upLog = <<>>
          /\ conn.mig = pre.conn.mig
          /\ (pc = "idle" /\ outcome.status = "returned") => outcome.value = <<>>
    /\ (Done("runMigrations") /\ outcome.status = "returned") =>
          \A m \in Migs :
              Occurrences(upLog, m) =
                 IF m \in Range(supplied) /\ VersionOf(m) \notin Range(pre.conn.mig)
                 THEN 1 ELSE 0

\* a second call with two already applied migrations has returned the empty list
C5_Witness ==
    /\ Done("runMigrations")
    /\ repeated
    /\ Len(supplied) >= 2
    /\ Range(VersionsOf(supplied)) \subseteq Range(conn.mig)
    /\ outcome.status = "returned"
    /\ outcome.value = <<>>

\* ------------------------------------------------------------------------
\* C6
\* ------------------------------------------------------------------------

\* C6: with the applied versions distinct and all present in the supplied
\* list, rollbackMigrations(migrations, N) invokes down for, and deletes the
\* tracking rows of, exactly the min(N, number applied) highest applied
\* versions and leaves every other tracking row in place.
C6_RollbackUndoesTopN ==
    (/\ Done("rollbackMigrations")
     /\ outcome.status = "returned"
     /\ NoDuplicates(pre.conn.mig)
     /\ Range(pre.conn.mig) \subseteq Range(VersionsOf(supplied))) =>
        LET top == Largest(Range(pre.conn.mig), rbCount)
        IN  /\ Range(downLog) = top
            /\ NoDuplicates(downLog)
            /\ conn.mig = SelectSeq(pre.conn.mig, LAMBDA v : v \notin top)

\* C6 for a count of at least 1, which the code does satisfy
RollbackUndoesTopNFromOne ==
    rbCount >= 1 => C6_RollbackUndoesTopN

\* ------------------------------------------------------------------------
\* C7
\* ------------------------------------------------------------------------

C8_OneRowPerVersion ==
    NoDuplicates(conn.mig)

\* ------------------------------------------------------------------------
\* C9
\* ------------------------------------------------------------------------

\* C9: connect() on a Connected facade opens no new handle and keeps the one
\* held, close() on a Disconnected facade issues no engine call, and after any
\* series of connect/close calls at most one engine handle is open.
C9_ConnectCloseIdempotent ==
    /\ (Done("connect") /\ pre.isConnected) => (cmds = <<>> /\ db = pre.db)
    /\ (Done("close") /\ ~pre.isConnected) => cmds = <<>>
    /\ pc = "idle" => Cardinality(openHandles) <= 1

\* ------------------------------------------------------------------------
\* C10
\* ------------------------------------------------------------------------

\* C10: when connect() fails the engine's error is raised and the facade is
\* as before the call: Disconnected, holding no connection handle.
C10_FailedConnectLeavesState ==
    (Done("connect") /\ outcome.status = "threw") =>
        /\ outcome.value \in {"OpenError", "PragmaError"}
        /\ isConnected = pre.isConnected
        /\ db = pre.db
        /\ ~isConnected
        /\ db = NoHandle

\* ------------------------------------------------------------------------
\* C11
\* ------------------------------------------------------------------------

\* the callback of the transaction() call in progress (or just completed) has
\* made a transaction() call of its own
NestedCallMade == op = "transaction" /\ nested >= 1

\* C11: a transaction() call made from inside the callback of another
\* transaction() on the same facade begins no inner transaction, and raises.
C11_NestedTransactionRejected ==
    NestedCallMade =>
        /\ \A i \in 1..Len(innerCmds) : innerCmds[i] # Cmd("BEGIN", TRUE)
        /\ innerOutcome.status # "pending" => innerOutcome.status = "threw"

\* the part of C11 the engine provides: while the outer transaction is still
\* active, the inner BEGIN is refused and the inner call raises
FirstNestedCallRaises ==
    (NestedCallMade /\ nested = 1) =>
        /\ \A i \in 1..Len(innerCmds) : innerCmds[i] # Cmd("BEGIN", TRUE)
        /\ innerOutcome.status # "pending" => innerOutcome.status = "threw"

\* ------------------------------------------------------------------------
\* C12
\* ------------------------------------------------------------------------

\* C12: when the transaction callback throws and the ROLLBACK command that
\* follows is refused by the engine, transaction() raises the ROLLBACK
\* failure, not the error the callback threw.
C12_RollbackFailurePropagates ==
    (TxDone /\ cbStatus = "threw" /\ Refused("ROLLBACK")) =>
        /\ outcome = Threw("RollbackError")
        /\ nested = 0 => outcome.value # cbValue

\* a callback whose insert failed with an error on which the engine ended the
\* transaction: ROLLBACK was refused and its failure raised
C12_Witness ==
    /\ TxDone
    /\ nested = 0
    /\ cbStatus = "threw"
    /\ cbValue = "EngineError"
    /\ Refused("ROLLBACK")
    /\ outcome = Threw("RollbackError")

\* ------------------------------------------------------------------------
\* C13
\* ------------------------------------------------------------------------

\* C13: orWhere(column, operator, value) called when k >= 1 WHERE fragments
\* exist leaves their number at k, leaves fragments 1..k-1 unchanged, replaces
\* fragment k by `<fragment k> OR <column> <operator> ?` and appends value at
\* the end of the parameter list; called when no fragment exists it has
\* exactly the effect of where(column, operator, value).
C13_OrWhereBindsToLast ==
    [][ \A v \in Values :
          orWhere("b", "=", v) =>
             IF Len(whereConditions) >= 1
             THEN /\ Len(whereConditions') = Len(whereConditions)
                  /\ Front(whereConditions') = Front(whereConditions)
                  /\ whereConditions'[Len(whereConditions)] =
                        whereConditions[Len(whereConditions)] \o <<"OR", "b", "=", "?">>
                  /\ whereValues' = Append(whereValues, v)
                  /\ UNCHANGED <<havingClause, groupByClause, orderByClause, limitClause,
                                 offsetClause, selectColumns, distinctFlag, joins>>
             ELSE where("b", "=", v)
      ]_vars

\* orWhere was called with two fragments present: the second one carries the OR
C13_Witness ==
    /\ nCalls = 3
    /\ Len(whereConditions) = 2
    /\ whereConditions[1] = <<"a", "=", "?">>
    /\ whereConditions[2] = <<"a", "=", "?", "OR", "b", "=", "?">>
    /\ Len(whereValues) = 3

\* ------------------------------------------------------------------------
\* C14
\* ------------------------------------------------------------------------

\* the clause-overwriting functions describe the calls of the same name
OverwritingCallsAgree ==
    [][ /\ groupBy("a") => Builder' = groupByOn(Builder, "a")
        /\ \A d \in {"ASC", "DESC"} : orderBy("a", d) => Builder' = orderByOn(Builder, "a", d)
        /\ \A c \in HavingConditions : \A vs \in MatchingValues(c) :
              having(c, vs) => Builder' = havingOn(Builder, c, vs)
        /\ \A n \in {"0", "5"} : limit(n) => Builder' = limitOn(Builder, n)
        /\ offset("5") => Builder' = offsetOn(Builder, "5")
      ]_vars

\* calling groupBy, orderBy, limit or offset twice on the builder gives the
\* toSQL() result of calling it the second time only
LastCallWinsExceptHaving ==
    /\ \A c1, c2 \in {"a", "b"} :
          toSQLOf(groupByOn(groupByOn(Builder, c1), c2)) = toSQLOf(groupByOn(Builder, c2))
    /\ \A d1, d2 \in {"ASC", "DESC"} :
          toSQLOf(orderByOn(orderByOn(Builder, "a", d1), "b", d2))
             = toSQLOf(orderByOn(Builder, "b", d2))
    /\ \A n1, n2 \in {"0", "5"} :
          /\ toSQLOf(limitOn(limitOn(Builder, n1), n2)) = toSQLOf(limitOn(Builder, n2))
          /\ toSQLOf(offsetOn(offsetOn(Builder, n1), n2)) = toSQLOf(offsetOn(Builder, n2))

\* C14: for each of groupBy, orderBy, having, limit and offset, calling it
\* twice on the builder gives the same toSQL() result (sql and values) as
\* calling it only the second time.
C14_LastCallWins ==
    /\ LastCallWinsExceptHaving
    /\ \A c1, c2 \in HavingConditions :
          \A vs1 \in MatchingValues(c1) : \A vs2 \in MatchingValues(c2) :
             toSQLOf(havingOn(havingOn(Builder, c1, vs1), c2, vs2))
                = toSQLOf(havingOn(Builder, c2, vs2))

\* ------------------------------------------------------------------------
\* C15
\* ------------------------------------------------------------------------

\* every call made on the builder was a where(column, operator, value) call
OnlyWhereCalls ==
    /\ nCalls = Len(whereConditions)
    /\ \A i \in 1..Len(whereConditions) : whereConditions[i] = <<"a", "=", "?">>

\* C15: after any sequence of where calls, toSQL().values has as many
\* elements as toSQL().sql has placeholders.
C15_WhereValuesMatchPlaceholders ==
    OnlyWhereCalls =>
        /\ Len(toSQL.values) = CountPlaceholders(toSQL.sql)
        /\ Len(toSQL.values) = nCalls

\* three where calls were made
C15_Witness ==
    /\ OnlyWhereCalls
    /\ nCalls = 3
    /\ toSQL.values = <<1, 2, 1>>

\* ------------------------------------------------------------------------
\* C16
\* ------------------------------------------------------------------------

\* the first position of token t in a statement, 0 if it does not occur
RECURSIVE PositionFrom(_, _, _)
PositionFrom(sql, t, i) ==
    IF i > Len(sql) THEN 0
    ELSE IF sql[i] = t THEN i
    ELSE PositionFrom(sql, t, i + 1)

Position(sql, t) == PositionFrom(sql, t, 1)

\* the clause keywords in the order the statement must carry them
ClauseOrder ==
    <<"SELECT", "DISTINCT", "FROM", "JOIN", "WHERE", "GROUP BY", "HAVING",
      "ORDER BY", "LIMIT", "OFFSET">>

\* the clause of keyword kw has been set on the builder
ClauseSet(kw) ==
    CASE kw = "SELECT" -> TRUE
      [] kw = "DISTINCT" -> distinctFlag
      [] kw = "FROM" -> TRUE
      [] kw = "JOIN" -> Len(joins) > 0
      [] kw = "WHERE" -> Len(whereConditions) > 0
      [] kw = "GROUP BY" -> groupByClause # <<>>
      [] kw = "HAVING" -> havingClause # <<>>
      [] kw = "ORDER BY" -> orderByClause # <<>>
      [] kw = "LIMIT" -> limitClause # <<>>
      [] kw = "OFFSET" -> offsetClause # <<>>

\* the clause keywords a statement carries, in the order it carries them
KeywordsOf(sql) == SelectSeq(sql, LAMBDA t : t \in Range(ClauseOrder))

\* the keywords of the clauses that are set, in the fixed order, JOIN once
\* per join
KeywordsExpected ==
    Flatten([i \in 1..Len(ClauseOrder) |->
                IF ~ClauseSet(ClauseOrder[i]) THEN <<>>
                ELSE IF ClauseOrder[i] = "JOIN" THEN [j \in 1..Len(joins) |-> "JOIN"]
                ELSE <<ClauseOrder[i]>>])

\* C16: whatever the order of the calls, toSQL() renders SELECT [DISTINCT]
\* columns, FROM table, the JOINs in call order, WHERE with the fragments in
\* call order joined by AND, GROUP BY, HAVING, ORDER BY, LIMIT, OFFSET in
\* that order, and leaves out every clause that was not set.
C16_FixedClauseOrder ==
    /\ toSQL.sql =
          <<"SELECT">>
          \o (IF distinctFlag THEN <<"DISTINCT">> ELSE <<>>)
          \o JoinWith([i \in 1..Len(selectColumns) |-> <<selectColumns[i]>>], <<",">>)
          \o <<"FROM", tableName>>
          \o Flatten(joins)
          \o (IF whereConditions = <<>> THEN <<>>
              ELSE <<"WHERE">> \o JoinWith(whereConditions, <<"AND">>))
          \o groupByClause \o havingClause \o orderByClause \o limitClause \o offsetClause
    /\ KeywordsOf(toSQL.sql) = KeywordsExpected

\* HAVING, GROUP BY and a WHERE fragment were set in that order
C16_Witness ==
    /\ nCalls = 3
    /\ havingClause # <<>>
    /\ groupByClause # <<>>
    /\ Len(whereConditions) = 1
    /\ suppliedHaving # <<>>
    /\ Position(toSQL.sql, "WHERE") < Position(toSQL.sql, "GROUP BY")
    /\ Position(toSQL.sql, "GROUP BY") < Position(toSQL.sql, "HAVING")

\* ------------------------------------------------------------------------
\* C17
\* ------------------------------------------------------------------------

\* the first position from i on of a token of set S in a statement, one past
\* its end if there is none
RECURSIVE FirstOf(_, _, _)
FirstOf(sql, S, i) ==
    IF i > Len(sql) THEN Len(sql) + 1
    ELSE IF sql[i] \in S THEN i
    ELSE FirstOf(sql, S, i + 1)

\* the JOIN, WHERE, GROUP BY and HAVING text of toSQL(): what follows the
\* table name, up to ORDER BY, LIMIT or OFFSET
SelectionText ==
    SubSeq(toSQL.sql, Position(toSQL.sql, "FROM") + 2,
           FirstOf(toSQL.sql, {"ORDER BY", "LIMIT", "OFFSET"}, 1) - 1)

\* C17: for any builder state, toCountSQL() renders
\* `SELECT COUNT(*) as count FROM table` followed by the JOIN, WHERE, GROUP BY
\* and HAVING text of toSQL(), carries no projection column, DISTINCT, ORDER
\* BY, LIMIT or OFFSET, and returns the values list toSQL() returns.
C17_CountStatement ==
    /\ toCountSQL.sql = <<"SELECT", "COUNT(*) as count", "FROM", tableName>> \o SelectionText
    /\ SelectSeq(toCountSQL.sql,
                 LAMBDA t : t \in {"DISTINCT", "ORDER BY", "LIMIT", "OFFSET"}
                                   \cup Range(selectColumns)) = <<>>
    /\ toCountSQL.values = toSQL.values

\* a builder with a join, a WHERE fragment and an ORDER BY clause
C17_Witness ==
    /\ Len(joins) = 1
    /\ Len(whereConditions) = 1
    /\ Len(whereValues) = 1
    /\ orderByClause # <<>>
    /\ Len(toCountSQL.sql) < Len(toSQL.sql)

\* ------------------------------------------------------------------------
\* C18
\* ------------------------------------------------------------------------

\* C18: a toSQL() or toCountSQL() call leaves the builder's fields as they
\* are and returns the list the rendering gives, so that repeated calls
\* return equal results; a push onto a returned values list leaves the
\* builder's fields, and so the result of later calls, as they are.
C18_RenderingLeavesBuilder ==
    [][ /\ toSQLCall =>
              /\ Builder' = Builder
              /\ toSQL' = toSQL
              /\ held'.list.items = toSQL.values
        /\ toCountSQLCall =>
              /\ Builder' = Builder
              /\ toCountSQL' = toCountSQL
              /\ held'.list.items = toCountSQL.values
        /\ MutateHeld(1) =>
              /\ Builder' = Builder
              /\ toSQL' = toSQL
              /\ toCountSQL' = toCountSQL
      ]_vars

\* the caller pushed onto the list toSQL() returned for a builder with one
\* parameter: the list it holds is longer than the builder's
C18_Witness ==
    /\ held.from = "toSQL"
    /\ Len(whereValues) = 1
    /\ Len(held.list.items) = 2
    /\ toSQL.values = whereValues

\* ------------------------------------------------------------------------
\* C19
\* ------------------------------------------------------------------------

\* C19: whereIn(col, []) appends exactly one WHERE fragment equal to `1 = 0`
\* and no parameter; whereNotIn(col, []) appends no fragment and no
\* parameter and leaves the builder's fields unchanged.
C19_EmptyLists ==
    [][ /\ whereIn("a", <<>>) =>
              /\ whereConditions' = Append(whereConditions, <<"1 = 0">>)
              /\ whereValues' = whereValues
              /\ UNCHANGED <<havingClause, groupByClause, orderByClause, limitClause,
                             offsetClause, selectColumns, distinctFlag, joins>>
        /\ whereNotIn("a", <<>>) => Builder' = Builder
      ]_vars

\* whereIn and whereNotIn were both called with an empty list after a where
\* call: three calls were made, and only the where call and the `1 = 0`
\* fragment left a trace
C19_Witness ==
    /\ nCalls = 3
    /\ held = NoList
    /\ toSQL.sql = <<"SELECT", "*", "FROM", tableName, "WHERE", "a", "=", "?", "AND", "1 = 0">>
    /\ Len(toSQL.values) = 1

\* ------------------------------------------------------------------------
\* C20
\* ------------------------------------------------------------------------

\* a modifier call is made
ModifierCall ==
    \/ primaryKey
    \/ autoIncrement
    \/ notNull
    \/ unique
    \/ \E value \in {"x", "CURRENT_TIMESTAMP"} : default(value)
    \/ check("a > 0")
    \/ collate("NOCASE")

\* C20: a modifier (primaryKey, autoIncrement, notNull, unique, default,
\* check, collate) called on a TableBuilder on which no column method has
\* been called fails with the error 'No column selected' and leaves the
\* builder's columns and constraints unchanged.
C20_ModifierBeforeColumn ==
    [][ (ModifierCall /\ tbColumns = <<>>) =>
           /\ tbOutcome' = Threw(NoColumnSelected)
           /\ UNCHANGED <<tbColumns, tbConstraints, tbCurrentColumn>>
      ]_vars

\* a modifier was refused on a builder holding a constraint and no column
C20_Witness ==
    /\ tbOutcome = Threw(NoColumnSelected)
    /\ tbColumns = <<>>
    /\ Len(tbConstraints) = 1
    /\ tbCalls = 2

\* ------------------------------------------------------------------------
\* C21
\* ------------------------------------------------------------------------

\* the step appends fragment to the modifier list of the last column of
\* the column list and changes nothing else of columns and constraints
AppendsToLast(fragment) ==
    LET n == Len(tbColumns)
    IN  /\ Len(tbColumns') = n
        /\ \A i \in 1..(n - 1) : tbColumns'[i] = tbColumns[i]
        /\ tbColumns'[n].name = tbColumns[n].name
        /\ tbColumns'[n].type = tbColumns[n].type
        /\ tbColumns'[n].modifiers = Append(tbColumns[n].modifiers, fragment)
        /\ tbConstraints' = tbConstraints
        /\ tbOutcome' = Returned("this")

\* C21: on a builder with at least one column, a modifier call appends its
\* fragment to the end of the modifier list of the most recently declared
\* column; every other column, that column's name and type, and the
\* constraint list are unchanged, whatever table-constraint calls were
\* made since the column was declared.
C21_ModifierAppendsToLastColumn ==
    [][ tbColumns # <<>> =>
          /\ primaryKey => AppendsToLast(<<"PRIMARY KEY">>)
          /\ autoIncrement => AppendsToLast(<<"AUTOINCREMENT">>)
          /\ notNull => AppendsToLast(<<"NOT NULL">>)
          /\ unique => AppendsToLast(<<"UNIQUE">>)
          /\ default("x") => AppendsToLast(<<"DEFAULT", "'", "x", "'">>)
          /\ default("CURRENT_TIMESTAMP") => AppendsToLast(<<"DEFAULT", "CURRENT_TIMESTAMP">>)
          /\ check("a > 0") => AppendsToLast(<<"CHECK", "(", "a > 0", ")">>)
          /\ collate("NOCASE") => AppendsToLast(<<"COLLATE", "NOCASE">>)
      ]_vars

\* two columns were declared, then a table constraint, then a modifier:
\* the modifier is on the second column and the first has none
C21_Witness ==
    /\ tbSince = "modified"
    /\ Len(tbColumns) = 2
    /\ Len(tbConstraints) = 1
    /\ tbColumns[1].modifiers = <<>>
    /\ tbColumns[2].modifiers = << <<"NOT NULL">> >>
    /\ tbCalls = 4

\* ------------------------------------------------------------------------
\* C22
\* ------------------------------------------------------------------------

\* the builder's own fields
tbFields == <<tbColumns, tbConstraints, tbCurrentColumn>>

\* C22: build() returns one text per declared column, in declaration order,
\* each made of the column's name, its type and then its modifiers in the
\* order they were pushed; the call leaves the builder as it is, so that a
\* repeated call returns an equal result, and a push onto either returned
\* list leaves the builder, and so the result of later calls, as it is.
C22_BuildRendersColumns ==
    [][ /\ buildCall =>
              /\ Len(tbHeld'.columns) = Len(tbColumns)
              /\ \A i \in 1..Len(tbColumns) :
                    tbHeld'.columns[i] =
                        <<tbColumns[i].name>> \o tbColumns[i].type \o Flatten(tbColumns[i].modifiers)
              /\ tbFields' = tbFields
              /\ build' = build
        /\ \A list \in {"columns", "constraints"} :
              MutateBuilt(list, <<"x">>) =>
                  /\ tbFields' = tbFields
                  /\ build' = build
      ]_vars

\* build() was called on a builder with column a INTEGER NOT NULL and the
\* caller pushed onto the constraint list it returned: the list held is
\* longer than the builder's, which is still empty
C22_Witness ==
    /\ tbHeld.from = "build"
    /\ tbHeld.columns = << <<"a", "INTEGER", "NOT NULL">> >>
    /\ build.columns = tbHeld.columns
    /\ tbHeld.constraints.items = << <<"x">> >>
    /\ tbConstraints = <<>>
    /\ tbCalls = 4

\* ------------------------------------------------------------------------
\* C23
\* ------------------------------------------------------------------------

\* the constraint was created by foreignKey
IsForeignKeyFragment(constraint) == Len(constraint) > 0 /\ constraint[1] = "FOREIGN KEY"

\* the constraint carries a REFERENCES clause: the keyword followed by the
\* referenced table and column
HasReferencesClause(constraint) ==
    \E i \in 1..Len(constraint) : constraint[i] = "REFERENCES"

\* the call raised no error and left columns and constraints as they were
SilentlyDropped ==
    /\ tbOutcome' = Returned("this")
    /\ tbColumns' = tbColumns
    /\ tbConstraints' = tbConstraints

\* the call raised no error, left the columns and every constraint but
\* the last as they were, and added text to the end of the last constraint
AmendsLast ==
    LET n == Len(tbConstraints)
    IN  /\ tbOutcome' = Returned("this")
        /\ tbColumns' = tbColumns
        /\ Len(tbConstraints') = n
        /\ \A i \in 1..(n - 1) : tbConstraints'[i] = tbConstraints[i]
        /\ Len(tbConstraints'[n]) > Len(tbConstraints[n])
        /\ SubSeq(tbConstraints'[n], 1, Len(tbConstraints[n])) = tbConstraints[n]

\* the last constraint satisfies the test; FALSE when there is none
LastIs(Test(_)) == Len(tbConstraints) > 0 /\ Test(tbConstraints[Len(tbConstraints)])

\* C23: references(...) changes the constraint list only when the last
\* constraint is a FOREIGN KEY fragment, onDelete and onUpdate only when
\* the last constraint carries a REFERENCES clause; in every other case the
\* call raises no error and leaves columns and constraints unchanged.
C23_OutOfOrderCallsDropped ==
    [][ /\ references("u", "id") =>
              IF LastIs(IsForeignKeyFragment) THEN AmendsLast ELSE SilentlyDropped
        /\ onDelete("CASCADE") =>
              IF LastIs(HasReferencesClause) THEN AmendsLast ELSE SilentlyDropped
        /\ onUpdate("CASCADE") =>
              IF LastIs(HasReferencesClause) THEN AmendsLast ELSE SilentlyDropped
      ]_vars

\* the last constraint mentions the word REFERENCES outside a REFERENCES clause
MentionsReferencesOnly(constraint) ==
    IncludesReferences(constraint) /\ ~HasReferencesClause(constraint)

\* the same statement for builders whose last constraint does not mention
\* the word REFERENCES outside a REFERENCES clause
OutOfOrderCallsDroppedPlainTexts ==
    [][ ~LastIs(MentionsReferencesOnly) =>
          /\ references("u", "id") =>
                IF LastIs(IsForeignKeyFragment) THEN AmendsLast ELSE SilentlyDropped
          /\ onDelete("CASCADE") =>
                IF LastIs(HasReferencesClause) THEN AmendsLast ELSE SilentlyDropped
          /\ onUpdate("CASCADE") =>
                IF LastIs(HasReferencesClause) THEN AmendsLast ELSE SilentlyDropped
      ]_vars

\* ------------------------------------------------------------------------
\* C24
\* ------------------------------------------------------------------------

\* the predicate the claim gives a condition entry: its text
PredicateText(entry) ==
    IF entry.value.t = "array"
    THEN IF entry.value.items = <<>>
         THEN <<"1 = 0">>
         ELSE <<entry.key, "IN", "(">>
              \o JoinWith([ i \in 1..Len(entry.value.items) |-> <<"?">> ], <<",">>)
              \o <<")">>
    ELSE IF entry.value.t = "object" THEN <<entry.key, entry.value.s, "?">>
    ELSE <<entry.key, "=", "?">>

\* the predicate the claim gives a condition entry: its parameters
PredicateValues(entry) ==
    IF entry.value.t = "array"
    THEN [ i \in 1..Len(entry.value.items) |-> Num(entry.value.items[i]) ]
    ELSE IF entry.value.t = "object" THEN <<Num(entry.value.n)>>
    ELSE <<entry.value>>

\* C24: the statement find or count executes has one WHERE predicate per
\* condition entry, in entry order: whereIn(key, value) for an array value,
\* where(key, operator, value) for an object with an operator key, and
\* where(key, '=', value) for any other value, null included; its
\* parameters are those of the predicates, in the same order.
C24_ConditionsTranslated ==
    (qOp.name \in {"find", "count"} /\ executed # <<>>) =>
        LET statement == executed[1]
            predicates == SplitOn(ClauseBody(statement.sql, "WHERE"), "AND")
        IN  /\ Len(predicates) = Len(qOp.conditions)
            /\ \A i \in 1..Len(predicates) : predicates[i] = PredicateText(qOp.conditions[i])
            /\ statement.values =
                   Flatten([ i \in 1..Len(qOp.conditions) |-> PredicateValues(qOp.conditions[i]) ])

\* count was called with an array entry followed by an operator entry on
\* a table where one row satisfies both
C24_Witness ==
    /\ qOp.name = "count"
    /\ qOp.conditions = <<Entry("id", Arr(<<1>>)), Entry("v", Obj("<=", 1))>>
    /\ executed[1].sql = <<"SELECT", "COUNT(*) as count", "FROM", "t", "WHERE",
                            "id", "IN", "(", "?", ")", "AND", "v", "<=", "?">>
    /\ executed[1].values = <<Num(1), Num(1)>>
    /\ Len(tRows) = 2
    /\ qOutcome = Returned(1)

\* ------------------------------------------------------------------------
\* C25
\* ------------------------------------------------------------------------

\* the statement carries the clause for the option of that name, with the
\* option's value
Carries(sql, options, name) ==
    CASE name = "columns" -> SelectList(sql) = options.columns
      [] name = "orderBy" ->
             ClauseBody(sql, "ORDER BY") =
                 <<options.orderBy, IF "direction" \in options.has THEN options.direction ELSE "ASC">>
      [] name = "direction" -> TRUE
      [] name = "groupBy" -> ClauseBody(sql, "GROUP BY") = <<options.groupBy>>
      [] name = "having" -> ClauseBody(sql, "HAVING") = options.having
      [] name = "limit" -> ClauseBody(sql, "LIMIT") = <<ToString(options.limit)>>
      [] name = "offset" -> ClauseBody(sql, "OFFSET") = <<ToString(options.offset)>>

\* C25: for every option supplied to find (columns, orderBy with direction,
\* groupBy, having, limit, offset), whatever its value, limit 0 and an
\* offset without a limit included, the statement find executes carries
\* the corresponding clause with that value.
C25_OptionsCarried ==
    (qOp.name = "find" /\ executed # <<>>) =>
        \A name \in qOp.options.has : Carries(executed[1].sql, qOp.options, name)

\* the same statement for the options other than limit 0 and than an
\* offset that comes without a limit other than 0
OptionsCarriedButFalsyLimit ==
    (qOp.name = "find" /\ executed # <<>>) =>
        \A name \in qOp.options.has :
            \/ name \in {"limit", "offset"} /\ ~Truthy(qOp.options, "limit")
            \/ Carries(executed[1].sql, qOp.options, name)

\* ------------------------------------------------------------------------
\* C26
\* ------------------------------------------------------------------------

\* the row satisfies the condition entry: membership for an array value,
\* the operator's comparison for an operator object, equality otherwise
Satisfies(row, entry) ==
    IF entry.value.t = "array"
    THEN \E i \in 1..Len(entry.value.items) : row[entry.key] = Num(entry.value.items[i])
    ELSE IF entry.value.t = "object"
    THEN Compare(row[entry.key], entry.value.s, Num(entry.value.n))
    ELSE Compare(row[entry.key], "=", entry.value)

\* the rows of rows that satisfy every entry of conditions, in table order
MatchingRows(rows, conditions) ==
    SelectSeq(rows, LAMBDA row : \A i \in 1..Len(conditions) : Satisfies(row, conditions[i]))

\* the rows in the order the options ask for
InOrder(rows, options) ==
    IF Truthy(options, "orderBy")
    THEN OrderRows(rows, options.orderBy,
                   IF "direction" \in options.has THEN options.direction ELSE "ASC")
    ELSE rows

\* the row as a call with these options returns it
Shown(row, options) ==
    IF "columns" \in options.has THEN Project(row, options.columns) ELSE row

\* C26 as stated: findOne executes find with limit 1 whatever limit the
\* options carry, returns the first matching row when at least one row
\* matches, and returns null, without raising, when no row matches.
C26_FindOneAsStated ==
    (qOp.name = "findOne" /\ executed # <<>>) =>
        LET matching == InOrder(MatchingRows(qPre, qOp.conditions), qOp.options)
        IN  /\ ClauseBody(executed[1].sql, "LIMIT") = <<"1">>
            /\ qOutcome.status = "returned"
            /\ qOutcome.value = IF matching = <<>> THEN NoRow
                                ELSE Shown(matching[1], qOp.options)

\* C26, amended: findOne executes find with limit 1 whatever limit the
\* options carry and does not raise for zero rows; it returns null when
\* no row matches, and a matching row or null otherwise; when the options
\* carry no offset, groupBy or having and at least one row matches, it
\* returns the first matching row.
C26_FindOne ==
    (qOp.name = "findOne" /\ executed # <<>>) =>
        LET matching == InOrder(MatchingRows(qPre, qOp.conditions), qOp.options)
            plain == qOp.options.has \cap {"offset", "groupBy", "having"} = {}
        IN  /\ ClauseBody(executed[1].sql, "LIMIT") = <<"1">>
            /\ qOutcome.status = "returned"
            /\ matching = <<>> => qOutcome.value = NoRow
            /\ qOutcome.value # NoRow =>
                   \E i \in 1..Len(matching) : qOutcome.value = Shown(matching[i], qOp.options)
            /\ (plain /\ matching # <<>>) => qOutcome.value = Shown(matching[1], qOp.options)

\* findOne was called with limit 2 in its options on a table whose two
\* rows match, and returned the first
C26_Witness ==
    /\ qOp.name = "findOne"
    /\ qOp.options = With(NoOptions, "limit", 2)
    /\ qOp.conditions = <<>>
    /\ Len(tRows) = 2
    /\ executed[1].sql = <<"SELECT", "*", "FROM", "t", "LIMIT", "1">>
    /\ qOutcome = Returned(tRows[1])

\* ------------------------------------------------------------------------
\* C27
\* ------------------------------------------------------------------------

\* C27: update(table, patch) and delete(table) with omitted or empty
\* conditions execute a statement without WHERE clause: update gives the
\* patch's values to every row of the table and delete removes every row,
\* and the change count returned is the number of rows the table held.
C27_NoConditionsAllRows ==
    (qOp.name \in {"update", "delete"} /\ qOp.conditions = <<>> /\ qOutcome.status = "returned") =>
        /\ ~HasClause(executed[1].sql, "WHERE")
        /\ qOutcome.value.changes = Len(qPre)
        /\ qOp.name = "delete" => tRows = <<>>
        /\ qOp.name = "update" =>
              /\ Len(tRows) = Len(qPre)
              /\ \A i \in 1..Len(qPre) :
                    \A c \in {"id", "v"} :
                        tRows[i][c] =
                            IF \E k \in 1..Len(qOp.data) : qOp.data[k].key = c
                            THEN qOp.data[CHOOSE k \in 1..Len(qOp.data) : qOp.data[k].key = c].value
                            ELSE qPre[i][c]

\* update with no conditions changed both rows of a table whose rows held
\* different values
C27_Witness ==
    /\ qOp.name = "update"
    /\ qOp.conditions = <<>>
    /\ qOp.data = <<Entry("v", Num(2))>>
    /\ Len(qPre) = 2
    /\ qPre[1].v = Num(1)
    /\ qPre[2].v = Null
    /\ tRows[1].v = Num(2)
    /\ tRows[2].v = Num(2)
    /\ qOutcome = Returned([ changes |-> 2 ])
    /\ executed[1].sql = <<"UPDATE", "t", "SET", "v", "=", "?">>

\* ------------------------------------------------------------------------
\* C28
\* ------------------------------------------------------------------------

\* C28: the statement update or delete executes renders every condition
\* entry as `key = ?`, joined by AND, whatever the entry's value (an array
\* and an {operator, value} object included); update renders every patch
\* field as `key = ?` in field order; the parameter list is the prepared
\* patch values in field order followed by the prepared condition values
\* in entry order, one per placeholder.
C28_EqualityOnlyConditions ==
    (qOp.name \in {"update", "delete"} /\ executed # <<>>) =>
        LET statement == executed[1]
            predicates == SplitOn(ClauseBody(statement.sql, "WHERE"), "AND")
            assignments == SplitOn(ClauseBody(statement.sql, "SET"), ",")
        IN  /\ Len(predicates) = Len(qOp.conditions)
            /\ \A i \in 1..Len(predicates) : predicates[i] = <<qOp.conditions[i].key, "=", "?">>
            /\ Len(assignments) = Len(qOp.data)
            /\ \A i \in 1..Len(assignments) : assignments[i] = <<qOp.data[i].key, "=", "?">>
            /\ statement.values =
                   [ i \in 1..Len(qOp.data) |-> prepareValue(qOp.data[i].value) ]
                   \o [ i \in 1..Len(qOp.conditions) |-> prepareValue(qOp.conditions[i].value) ]
            /\ Len(statement.values) = CountPlaceholders(statement.sql)

\* update was called with a two-field patch and with conditions holding
\* an operator object and a number
C28_Witness ==
    /\ qOp.name = "update"
    /\ qOp.data = <<Entry("v", Num(2)), Entry("id", Num(1))>>
    /\ qOp.conditions = <<Entry("v", Obj(">", 1)), Entry("id", Num(1))>>
    /\ executed[1].sql = <<"UPDATE", "t", "SET", "v", "=", "?", ",", "id", "=", "?",
                            "WHERE", "v", "=", "?", "AND", "id", "=", "?">>
    /\ executed[1].values =
           <<Num(2), Num(1), Str("{\"operator\":\">\",\"value\":1}"), Num(1)>>
    /\ Len(tRows) = 2
    /\ qOutcome = Returned([ changes |-> 0 ])

\* ------------------------------------------------------------------------
\* C29
\* ------------------------------------------------------------------------

\* C29: on one and the same table contents, count(table, conditions)
\* returns the number of rows find(table, conditions) without options
\* returns, for every conditions object: a count that returned is the
\* length of every result find can give then, and a find without options
\* that returned has as many rows as count gives then.
C29_CountIsLengthOfFind ==
    /\ (qOp.name = "count" /\ qOutcome.status = "returned") =>
            \A end \in FindOutcomes(qOp.conditions, NoOptions) :
                /\ end.outcome.status = "returned"
                /\ Len(end.outcome.value) = qOutcome.value
    /\ (qOp.name = "find" /\ qOp.options = NoOptions /\ qOutcome.status = "returned") =>
            \A end \in CountOutcomes(qOp.conditions) :
                /\ end.outcome.status = "returned"
                /\ end.outcome.value = Len(qOutcome.value)

\* count with a two-entry conditions object returned 1 on a table of two
\* rows of which the first entry alone matches one and the second two
C29_Witness ==
    /\ qOp.name = "count"
    /\ qOp.conditions = <<Entry("id", Arr(<<1>>)), Entry("v", Obj("<=", 1))>>
    /\ Len(tRows) = 2
    /\ tRows[1].v = Num(1)
    /\ tRows[2].v = Num(1)
    /\ qOutcome = Returned(1)

\* ------------------------------------------------------------------------
\* C30
\* ------------------------------------------------------------------------

\* the smaller and the larger of two numbers
Smaller(a, b) == IF a < b THEN a ELSE b
Larger(a, b) == IF a > b THEN a ELSE b

\* the summary and the rows a findPaginated call returned are those of
\* page `page` of `perPage` rows of the matching rows of the table
PageOf(returned, call, rows) ==
    LET page == call.pagination.page
        perPage == call.pagination.limit
        matching == InOrder(MatchingRows(rows, call.conditions), call.options)
        first == (page - 1) * perPage
    IN  /\ returned.total = Len(matching)
        /\ returned.totalPages * perPage >= returned.total
        /\ (returned.totalPages - 1) * perPage < returned.total
        /\ returned.hasNext = (page < returned.totalPages)
        /\ returned.hasPrev = (page > 1)
        /\ Len(returned.data) = Smaller(perPage, Larger(0, returned.total - first))
        /\ \A i \in 1..Len(returned.data) :
               returned.data[i] = Shown(matching[first + i], call.options)

\* the find statement of the call carries the pagination's limit and
\* offset, not those of the options
PaginationOverrides(statement, call) ==
    LET first == (call.pagination.page - 1) * call.pagination.limit
    IN  /\ ClauseBody(statement.sql, "LIMIT") = <<ToString(call.pagination.limit)>>
        /\ IF first > 0
           THEN ClauseBody(statement.sql, "OFFSET") = <<ToString(first)>>
           ELSE ~HasClause(statement.sql, "OFFSET")

\* C30: with page >= 1, limit >= 1 and no write between its two steps,
\* findPaginated returns total = the number of matching rows, totalPages =
\* ceil(total / limit), hasNext = (page < totalPages), hasPrev = (page > 1)
\* and exactly min(limit, max(0, total - (page - 1) * limit)) rows, the rows
\* at positions (page - 1) * limit + 1 .. page * limit of the ordered
\* result; the pagination's limit and offset replace those of the options.
C30_PageSummary ==
    (/\ qOp.name = "findPaginated"
     /\ qPc = "idle"
     /\ ~interleaved
     /\ qOutcome.status = "returned") =>
        /\ PageOf(qOutcome.value, qOp, qPre)
        /\ PaginationOverrides(executed[2], qOp)

\* The same holds of every call whose options group no rows.
PageSummaryUngrouped ==
    (/\ qOp.name = "findPaginated"
     /\ qPc = "idle"
     /\ ~interleaved
     /\ qOutcome.status = "returned"
     /\ "groupBy" \notin qOp.options.has) =>
        /\ PageOf(qOutcome.value, qOp, qPre)
        /\ PaginationOverrides(executed[2], qOp)

\* calls whose options name a limit and an offset of their own, and calls
\* for a second page, did return
PagesReturned ==
    /\ qOp.name = "findPaginated"
    /\ qPc = "idle"
    /\ ~interleaved
    /\ qOutcome.status = "returned"
    /\ qOp.pagination = [ page |-> 2, limit |-> 1 ]
    /\ qOp.options = With(With(NoOptions, "limit", 1), "offset", 1)
    /\ Len(qPre) = 2
    /\ qOutcome.value.data = <<qPre[2]>>
    /\ qOutcome.value.totalPages = 2

\* ------------------------------------------------------------------------
\* C31
\* ------------------------------------------------------------------------

\* the number of rows the returned total and the page imply
RowsImplied(returned, call) ==
    Smaller(call.pagination.limit,
            Larger(0, returned.total - (call.pagination.page - 1) * call.pagination.limit))

\* a findPaginated call whose options group no rows has returned
PageReturned ==
    /\ qOp.name = "findPaginated"
    /\ qPc = "idle"
    /\ qOutcome.status = "returned"
    /\ "groupBy" \notin qOp.options.has

\* C31: findPaginated is not atomic. A page whose number of rows is not
\* the one its total and page imply is returned, and is returned only
\* when another caller's write ran between the count step and the find
\* step of the call.
C31_InconsistentPageOnlyAfterInterleavedWrite ==
    (PageReturned /\ Len(qOutcome.value.data) # RowsImplied(qOutcome.value, qOp)) => interleaved

\* another caller's insert ran between the two steps: the page holds two
\* rows while the total is 1
C31_Witness ==
    /\ PageReturned
    /\ interleaved
    /\ qOp.pagination = [ page |-> 1, limit |-> 2 ]
    /\ Len(qPre) = 1
    /\ Len(tRows) = 2
    /\ qOutcome.value.total = 1
    /\ Len(qOutcome.value.data) = 2
    /\ RowsImplied(qOutcome.value, qOp) = 1

\* another caller's delete ran between the two steps: the page is empty
\* while the total is 2
PageShorterThanTotal ==
    /\ PageReturned
    /\ interleaved
    /\ qOutcome.value.total = 2
    /\ qOutcome.value.data = <<>>
    /\ RowsImplied(qOutcome.value, qOp) > 0

\* ------------------------------------------------------------------------
\* C32
\* ------------------------------------------------------------------------

\* the value bound for a record value, as the preparation is described
AsDescribed(value) ==
    CASE value.t \in {"null", "undefined"} -> Null
      [] value.t = "date" -> Str(toISOString(value))
      [] value.t = "boolean" -> IF value.s = "true" THEN Num(1) ELSE Num(0)
      [] value.t \in {"array", "object", "cyclic"} -> Str(JSONStringify(value))
      [] OTHER -> value

\* the column names of the statement an insert or update call executed
ColumnsWritten(statement) ==
    IF statement.sql[1] = "UPDATE"
    THEN LET assignments == SplitOn(ClauseBody(statement.sql, "SET"), ",")
         IN  [ i \in 1..Len(assignments) |-> assignments[i][1] ]
    ELSE SelectSeq(SubSeq(statement.sql, IndexFrom(statement.sql, {"("}, 1) + 1,
                          IndexFrom(statement.sql, {")"}, 1) - 1),
                   LAMBDA token : token # ",")

\* the statement names the record's fields in order and binds, in the same
\* order, the value described for each
BoundAsDescribed(statement, data) ==
    /\ ColumnsWritten(statement) = [ i \in 1..Len(data) |-> data[i].key ]
    /\ Len(statement.values) >= Len(data)
    /\ SubSeq(statement.values, 1, Len(data)) = [ i \in 1..Len(data) |-> AsDescribed(data[i].value) ]

\* C32 as stated: insert and update on a connected facade bind each record
\* value after preparation (null and undefined as NULL, a date as its ISO
\* text, a boolean as 1 or 0, another object as its JSON text, every other
\* value unchanged), in the order of the statement's column names.
C32_ValuesPreparedAsStated ==
    (qOp.name \in {"insert", "update"} /\ ~NotConnected) =>
        /\ executed # <<>>
        /\ BoundAsDescribed(executed[1], qOp.data)

\* C32: insert and update on a connected facade bind each record value
\* after preparation, in the order of the statement's column names, unless
\* the preparation raises on a value of the record or of the conditions (a
\* Date without a valid time, an object JSON.stringify refuses): then the
\* call raises that error, executes no statement and leaves the table as
\* it was.
C32_ValuesPrepared ==
    (qOp.name \in {"insert", "update"} /\ ~NotConnected) =>
        IF SomeRaises(qOp.data \o qOp.conditions)
        THEN /\ executed = <<>>
             /\ qOutcome.status = "threw"
             /\ qOutcome.value \in {"RangeError", "TypeError"}
             /\ tRows = qPre
        ELSE /\ executed # <<>>
             /\ BoundAsDescribed(executed[1], qOp.data)

\* an insert of a record naming id and a boolean bound the text and 1, in
\* the order of its columns
C32_Witness ==
    /\ qOp.name = "insert"
    /\ qOp.data = <<Entry("id", Str("2")), Entry("v", Bool(TRUE))>>
    /\ executed[1].sql = <<"INSERT INTO", "t", "(", "id", ",", "v", ")",
                            "VALUES", "(", "?", ",", "?", ")">>
    /\ executed[1].values = <<Str("2"), Num(1)>>
    /\ qOutcome.status = "returned"

\* an update whose patch holds a Date without a valid time raised and
\* changed nothing, on a table with a row
PreparationRaised ==
    /\ qOp.name = "update"
    /\ qOp.data = <<Entry("v", InvalidDate)>>
    /\ qOutcome = Threw("RangeError")
    /\ executed = <<>>
    /\ tRows # <<>>

\* ------------------------------------------------------------------------
\* C33
\* ------------------------------------------------------------------------

\* findOne(table, {id: lastID}) was called, without options, right after
\* the insert that returned lastID
ReadBack ==
    /\ qOp.name = "findOne"
    /\ inserted # NoInsert
    /\ qOp.conditions = <<Entry("id", Num(inserted.lastID))>>
    /\ qOp.options = NoOptions

TimesApplied(column, fragment) ==
    Cardinality({ i \in 1..Len(column.modifiers) : column.modifiers[i] = fragment })

\* C34: the migrations tracking table is created with exactly the columns
\* id (INTEGER, PRIMARY KEY, AUTOINCREMENT), version (INTEGER, NOT NULL),
\* name (TEXT, NOT NULL) and applied_at (TEXT, DEFAULT CURRENT_TIMESTAMP),
\* each column carrying each of its listed modifiers once and no other.
C34_MigrationsTableColumns ==
    (tbHeld.from = "build" /\ conn.migTable) =>
        /\ tbHeld.columns = << <<"id", "INTEGER", "PRIMARY KEY", "AUTOINCREMENT">>,
                               <<"version", "INTEGER", "NOT NULL">>,
                               <<"name", "TEXT", "NOT NULL">>,
                               <<"applied_at", "TEXT", "DEFAULT", "CURRENT_TIMESTAMP">> >>
        /\ \A i \in 1..Len(tbColumns) :
               \A j \in 1..Len(tbColumns[i].modifiers) :
                   TimesApplied(tbColumns[i], tbColumns[i].modifiers[j]) = 1

\* The first three columns are as listed, and applied_at is a TEXT column
\* whose only modifier, DEFAULT CURRENT_TIMESTAMP, is applied twice.
MigrationsTableDefaultTwice ==
    (tbHeld.from = "build" /\ conn.migTable) =>
        /\ tbHeld.columns = << <<"id", "INTEGER", "PRIMARY KEY", "AUTOINCREMENT">>,
                               <<"version", "INTEGER", "NOT NULL">>,
                               <<"name", "TEXT", "NOT NULL">>,
                               <<"applied_at", "TEXT", "DEFAULT", "CURRENT_TIMESTAMP",
                                 "DEFAULT", "CURRENT_TIMESTAMP">> >>

\* ------------------------------------------------------------------------
\* C35
\* ------------------------------------------------------------------------

\* C35: whenever no call of the facade is in progress, after any sequence
\* of connect, close and data operations, those that fail part-way
\* included, the connected flag is true if and only if a connection
\* handle is held: getConnectionStatus() and getDatabase() agree.
C35_FlagIffHandle ==
    pc = "idle" => (isConnected <=> db # NoHandle)

\* One half holds: the flag is never true without a handle.
FlagImpliesHandle ==
    pc = "idle" => (isConnected => db # NoHandle)

\* ------------------------------------------------------------------------
\* C36
\* ------------------------------------------------------------------------

\* each caller has made one connect() call, the second started while the
\* first awaited open() on the facade that had never opened a handle, and
\* both calls are over
OverlappingConnectsOver ==
    /\ overlapped
    /\ \A c \in Callers : connCalls[c] = 1 /\ connPc[c] = "idle"

\* C36: when two connect() calls on a Disconnected facade overlap, the
\* engine is opened once, and no opened handle is left that the facade
\* does not refer to.
C36_OverlappingConnectsOpenOnce ==
    OverlappingConnectsOver =>
        /\ nextHandle <= 2
        /\ openHandles \subseteq {db}

\* Both calls returned, the engine was opened twice and the handle of the
\* first open is open and not the one the facade holds.
BothConnectsOpened ==
    /\ OverlappingConnectsOver
    /\ \A c \in Callers : connOutcome[c] = Returned("void")
    /\ nextHandle = 3
    /\ openHandles = {1, 2}
    /\ db = 2
    /\ isConnected

\* ------------------------------------------------------------------------
\* C37
\* ------------------------------------------------------------------------

\* a transaction() call is over whose BEGIN command failed
BeginFailed ==
    /\ op = "transaction"
    /\ pc = "idle"
    /\ cmds # <<>>
    /\ cmds[1] = Cmd("BEGIN", FALSE)

\* C37: transaction() sends ROLLBACK only after its own BEGIN succeeded:
\* when BEGIN fails, the call sends no ROLLBACK and raises the error of
\* the BEGIN command.
C37_NoRollbackAfterFailedBegin ==
    BeginFailed =>
        /\ \A i \in 1..Len(cmds) : cmds[i].cmd # "ROLLBACK"
        /\ outcome = Threw("BeginError")

\* What the call does: it sends ROLLBACK after the failed BEGIN, the
\* engine refuses it, no transaction being active, and the call raises
\* the error of the ROLLBACK command.
RollbackAfterFailedBegin ==
    BeginFailed =>
        /\ cmds = <<Cmd("BEGIN", FALSE), Cmd("ROLLBACK", FALSE)>>
        /\ outcome = Threw("RollbackError")

\* ------------------------------------------------------------------------
\* C38
\* ------------------------------------------------------------------------

\* C38: the ROLLBACK a transaction() call sends undoes no write that was
\* made outside its callback: the rows the enclosing callback's inserts
\* returned for are on the connection after the ROLLBACK of a nested call
\* (whose own callback writes nothing).
C38_RollbackKeepsOthersWrites ==
    [][InnerRollback => conn'.rows = conn.rows]_vars

\* The ROLLBACK of a nested call leaves the connection with the rows on
\* disk: every row the enclosing callback inserted is gone.
NestedRollbackDropsOuterWrites ==
    [][InnerRollback => conn' = disk]_vars

\* a nested call whose BEGIN was refused has rolled back a row inserted by
\* the enclosing callback
OuterWriteUndone ==
    /\ innerCmds = <<Cmd("BEGIN", FALSE), Cmd("ROLLBACK", TRUE)>>
    /\ \E i \in 1..Len(cmds) : cmds[i] = Cmd("INSERT", TRUE)
    /\ conn.rows = {}
    /\ ~inTx

\* ------------------------------------------------------------------------
\* C39
\* ------------------------------------------------------------------------

\* the constraint is as primary, uniqueConstraint or checkConstraint made it
AsCreated(constraint) ==
    constraint[1] \in {"PRIMARY KEY", "UNIQUE", "CHECK"} => Len(constraint) = 4

\* C39: after any sequence of TableBuilder calls, every foreign-key
\* constraint carries at most one REFERENCES clause, at most one ON DELETE
\* and at most one ON UPDATE action, and every constraint created by
\* primary, uniqueConstraint or checkConstraint is as it was created.
C39_ForeignKeysWellFormed ==
    \A i \in 1..Len(tbConstraints) :
        LET constraint == tbConstraints[i]
        IN  /\ StartsWithForeignKey(constraint) =>
                  /\ Occurrences(constraint, "REFERENCES") <= 1
                  /\ Occurrences(constraint, "ON DELETE") <= 1
                  /\ Occurrences(constraint, "ON UPDATE") <= 1
            /\ AsCreated(constraint)

\* A constraint created by primary or uniqueConstraint, or by
\* checkConstraint with a text that does not hold REFERENCES, is as it was
\* created.
PlainConstraintsAsCreated ==
    \A i \in 1..Len(tbConstraints) :
        ~IncludesReferences(tbConstraints[i]) => AsCreated(tbConstraints[i])

\* references was called twice on one foreign key
ReferencesTwice ==
    /\ Len(tbConstraints) = 1
    /\ tbConstraints[1] = <<"FOREIGN KEY", "(", "a", ")", "REFERENCES", "u", "(", "id", ")",
                            "REFERENCES", "u", "(", "id", ")">>

\* onDelete was called twice on one foreign key
OnDeleteTwice ==
    /\ Len(tbConstraints) = 1
    /\ Occurrences(tbConstraints[1], "ON DELETE") = 2

====
